---- MODULE Spec2Model ----
(***************************************************************************)
(* Disk-paxos resource leases of sanlock (paxos_lease.c) over one shared   *)
(* disk, together with the delta-lease liveness oracle they consult; the   *)
(* same leases over several disks; and the daemon (main.c) that hands the  *)
(* leases to its clients.                                                  *)
(*                                                                         *)
(* One resource r, one lockspace.  Every host owns the host_id equal to    *)
(* its index.  A read_iobuf of the lease area is one atomic snapshot of    *)
(* the leader sector and all dblock sectors; a sector write is atomic.     *)
(* monotime() is the global clock `now` (whole seconds).                   *)
(***************************************************************************)
EXTENDS Integers, FiniteSets, Sequences, TLC

\* ------------------------------------------------------------------ bounds
MaxTime == 2        \* the clock stops at MaxTime
MaxLver == 2        \* no ballot is started for an lver above MaxLver
MaxMbal == 6        \* a ballot is retried only while our_mbal stays <= MaxMbal
MaxReclaimTime == 18 \* the clock of the reclaim scenario stops here
MaxBallots == 2     \* the ballots of one call are counted up to MaxBallots

\* ------------------------------------------------------- program constants
Hosts == {1, 2}                     \* host_ids 1..num_hosts of the lockspace
num_hosts == Cardinality(Hosts)     \* leader.num_hosts
max_hosts == Cardinality(Hosts)     \* leader.max_hosts
LEASE_FREE == 0
io_timeout_default == 1             \* io_timeout every host advertises

SANLK_OK                 == "SANLK_OK"
SANLK_DBLOCK_MBAL        == "SANLK_DBLOCK_MBAL"
SANLK_DBLOCK_LVER        == "SANLK_DBLOCK_LVER"
SANLK_ACQUIRE_LVER       == "SANLK_ACQUIRE_LVER"
SANLK_ACQUIRE_IDLIVE     == "SANLK_ACQUIRE_IDLIVE"
SANLK_ACQUIRE_OWNED      == "SANLK_ACQUIRE_OWNED"
SANLK_ACQUIRE_OWNED_RETRY == "SANLK_ACQUIRE_OWNED_RETRY"
SANLK_ACQUIRE_OTHER      == "SANLK_ACQUIRE_OTHER"
SANLK_RELEASE_LVER       == "SANLK_RELEASE_LVER"
SANLK_RELEASE_OWNER      == "SANLK_RELEASE_OWNER"
SANLK_LEADER_MAGIC       == "SANLK_LEADER_MAGIC"
NONE                     == "NONE"

\* leader.magic: a lease area in use, a cleared one, and the zero of a blank disk
PAXOS_DISK_MAGIC == "PAXOS_DISK_MAGIC"
PAXOS_DISK_CLEAR == "PAXOS_DISK_CLEAR"
NO_MAGIC         == "NO_MAGIC"

DBLOCK_FL_RELEASED == "DBLOCK_FL_RELEASED"
LFL_SHORT_HOLD     == "LFL_SHORT_HOLD"
PAXOS_ACQUIRE_FORCE        == "PAXOS_ACQUIRE_FORCE"
PAXOS_ACQUIRE_SHARED       == "PAXOS_ACQUIRE_SHARED"
PAXOS_ACQUIRE_OWNER_NOWAIT == "PAXOS_ACQUIRE_OWNER_NOWAIT"
MBLOCK_SHARED              == "MBLOCK_SHARED"
T_WRITE_DBLOCK_MBLOCK_SH   == "T_WRITE_DBLOCK_MBLOCK_SH"
SANLK_ACQUIRE_SH           == "SANLK_ACQUIRE_SH"
SANLK_DBLOCK_READ          == "SANLK_DBLOCK_READ"
SANLK_DBLOCK_WRITE         == "SANLK_DBLOCK_WRITE"
T_RETRACT_PAXOS            == "T_RETRACT_PAXOS"

\* ----------------------------------------------------------------- records
\* struct leader_record, the fields the lease algorithm reads or writes
ZeroLeader ==
  [magic |-> NO_MAGIC,
   lver |-> 0, owner_id |-> 0, owner_generation |-> 0, timestamp |-> LEASE_FREE,
   write_id |-> 0, write_generation |-> 0, write_timestamp |-> 0, flags |-> {}]

\* faulty variant of init_leader: the time of the init is left in timestamp
init_leader_stamped(write_clear, t) ==
  IF write_clear
    THEN [ZeroLeader EXCEPT !.magic = PAXOS_DISK_CLEAR, !.write_timestamp = t,
                            !.timestamp = t]
    ELSE [ZeroLeader EXCEPT !.magic = PAXOS_DISK_MAGIC, !.timestamp = t]

\* paxos_lease_init: the leader record it writes at time t
init_leader(write_clear, t) ==
  IF write_clear
    THEN [ZeroLeader EXCEPT !.magic = PAXOS_DISK_CLEAR, !.write_timestamp = t,
                            !.timestamp = LEASE_FREE]
    ELSE [ZeroLeader EXCEPT !.magic = PAXOS_DISK_MAGIC, !.timestamp = LEASE_FREE]

\* _verify_leader, the magic test (names, version and checksum always match here)
verify_leader(lr) ==
  IF lr.magic = PAXOS_DISK_CLEAR THEN SANLK_LEADER_MAGIC
  ELSE IF lr.magic # PAXOS_DISK_MAGIC THEN SANLK_LEADER_MAGIC
  ELSE SANLK_OK

\* struct paxos_dblock after memset(0)
ZeroDblock ==
  [mbal |-> 0, bal |-> 0, inp |-> 0, inp2 |-> 0, inp3 |-> 0, lver |-> 0, flags |-> {}]

\* struct host_status after memset(0): the owner was never checked
ZeroHs ==
  [last_check |-> 0, last_live |-> 0, timestamp |-> 0,
   owner_id |-> 0, owner_generation |-> 0, io_timeout |-> 0]

\* host_dead_seconds of a host advertising io_timeout
calc_host_dead_seconds(io) == 8 * io

VARIABLES
  now,        \* monotime()
  leader,     \* sector 0 of the resource: the leader record on disk
  dblocks,    \* sectors 2..: dblocks[q] is the dblock of host_id q on disk
  delta,      \* delta[q]: the delta-lease sector of host_id q
  hstatus,    \* hstatus[h][q]: host h's host_status entry for host_id q
  alive,      \* alive[h]: host h is running (not reset by its watchdog)
  pc,         \* pc[h]: position of host h inside acquire / release
  tok,        \* tok[h]: host h's token for r
  acq,        \* acq[h]: locals of host h's paxos_lease_acquire / release call
  hist,       \* history: what was returned and committed so far
  mblocks     \* mblocks[q]: the mode block flags inside host_id q's dblock sector

\* the same lease kept on several disks, used by one host (FirstHost)
VARIABLES
  disks,      \* disks[d]: reachability of disk d, its leader and our dblock sector
  mpc,        \* position of the host inside paxos_lease_acquire / release
  mtok        \* the host's token and the locals of the running call

\* the daemon: client table, lockspace list, one worker thread
VARIABLES
  client,     \* client[ci]: struct client of slot ci
  space,      \* the lockspace of the resources, as kept in the spaces list
  worker,     \* the cmd_acquire_thread in flight: position and locals
  supervisor, \* main_loop: external_shutdown, waiting for a mutex, returned
  sent        \* history: pid state and the signals sent to each pid

mdvars == <<disks, mpc, mtok>>
dmvars == <<client, space, worker, supervisor, sent>>

\* the variables of the other parts of the model
others == <<mdvars, dmvars>>

\* the parts of the model that a specification does not run
MdOff == disks = <<>> /\ mpc = "off" /\ mtok = <<>>
DmOff ==
  /\ client = <<>> /\ space = <<>> /\ worker = <<>> /\ supervisor = <<>>
  /\ sent = <<>>

vars == <<now, leader, dblocks, delta, hstatus, alive, pc, tok, acq, hist,
          mblocks, others>>

\* acq[h] when no call is running
ZeroAcq ==
  [flags |-> {}, acquire_lver |-> 0, cur_leader |-> ZeroLeader, max_mbal |-> 0,
   next_lver |-> 0, our_mbal |-> 0, dblock |-> ZeroDblock,
   wait_start |-> 0, last_timestamp |-> 0, hs |-> ZeroHs, wake |-> 0,
   ballots |-> 0, result |-> NONE, leader_ret |-> ZeroLeader, shared |-> {}]

\* a delta-lease sector freshly written by host_id q at time t
DeltaLeader(q, gen, t) ==
  [owner_id |-> q, owner_generation |-> gen, timestamp |-> t,
   io_timeout |-> io_timeout_default]

\* before: the leader that the acquire which took the token had read
ZeroToken(gen) ==
  [host_generation |-> gen, held |-> FALSE, leader |-> ZeroLeader,
   before |-> ZeroLeader, flags |-> {}]

EmptyHist == [ballots |-> {}, commits |-> {}]

\* The state after paxos_lease_init of r and after every host has acquired
\* its host_id (generation 1); no host_status entry has been checked yet.
Init ==
  /\ now = 1
  /\ leader = init_leader(FALSE, 1)
  /\ dblocks = [q \in Hosts |-> ZeroDblock]
  /\ delta = [q \in Hosts |-> DeltaLeader(q, 1, 1)]
  /\ hstatus = [h \in Hosts |-> [q \in Hosts |-> ZeroHs]]
  /\ alive = [h \in Hosts |-> TRUE]
  /\ pc = [h \in Hosts |-> "idle"]
  /\ tok = [h \in Hosts |-> ZeroToken(1)]
  /\ acq = [h \in Hosts |-> ZeroAcq]
  /\ hist = EmptyHist
  /\ mblocks = [q \in Hosts |-> {}]
  /\ MdOff /\ DmOff

\* --------------------------------------------------------------- helpers
\* _lease_read_one: the loop that computes max_mbal over the dblocks
RECURSIVE lease_read_max_mbal(_, _, _)
lease_read_max_mbal(dbs, q, tmp_mbal) ==
  IF q > num_hosts THEN tmp_mbal
  ELSE lease_read_max_mbal(dbs, q + 1,
         IF tmp_mbal = 0 \/ dbs[q].mbal > tmp_mbal THEN dbs[q].mbal ELSE tmp_mbal)

\* faulty variant of first_mbal: the next number after max_mbal that the
\* host_id is added to
first_mbal_plain(max_mbal, host_id) == max_mbal + host_id

\* paxos_lease_acquire, label run: the first mbal of this acquire
first_mbal(max_mbal, host_id) ==
  IF max_mbal = 0 THEN host_id
  ELSE (max_mbal - (max_mbal % max_hosts)) + max_hosts + host_id

\* memcmp of two leader records
leader_differs(a, b) == a # b

\* run_ballot, the loop over q after the phase 1 read: the first abort in
\* host_id order wins, otherwise the dblock of largest bal with an inp
RECURSIVE phase1_scan(_, _, _, _)
phase1_scan(dbs, dblock, q, bk_max) ==
  IF q > num_hosts THEN [error |-> SANLK_OK, bk_max |-> bk_max]
  ELSE LET bk == dbs[q] IN
    IF bk.lver < dblock.lver THEN phase1_scan(dbs, dblock, q + 1, bk_max)
    ELSE IF bk.lver > dblock.lver THEN [error |-> SANLK_DBLOCK_LVER, bk_max |-> bk_max]
    ELSE IF bk.mbal > dblock.mbal THEN [error |-> SANLK_DBLOCK_MBAL, bk_max |-> bk_max]
    ELSE IF bk.inp = 0 THEN phase1_scan(dbs, dblock, q + 1, bk_max)
    ELSE IF bk.bal = 0 THEN phase1_scan(dbs, dblock, q + 1, bk_max)
    ELSE IF bk.bal > bk_max.bal THEN phase1_scan(dbs, dblock, q + 1, bk)
    ELSE phase1_scan(dbs, dblock, q + 1, bk_max)

\* faulty variant of phase2_scan: a larger mbal of the same lver is not looked at
RECURSIVE phase2_scan_lver(_, _, _)
phase2_scan_lver(dbs, dblock, q) ==
  IF q > num_hosts THEN SANLK_OK
  ELSE LET bk == dbs[q] IN
    IF bk.lver < dblock.lver THEN phase2_scan_lver(dbs, dblock, q + 1)
    ELSE IF bk.lver > dblock.lver THEN SANLK_DBLOCK_LVER
    ELSE phase2_scan_lver(dbs, dblock, q + 1)

\* run_ballot, the loop over q after the phase 2 read
RECURSIVE phase2_scan(_, _, _)
phase2_scan(dbs, dblock, q) ==
  IF q > num_hosts THEN SANLK_OK
  ELSE LET bk == dbs[q] IN
    IF bk.lver < dblock.lver THEN phase2_scan(dbs, dblock, q + 1)
    ELSE IF bk.lver > dblock.lver THEN SANLK_DBLOCK_LVER
    ELSE IF bk.mbal > dblock.mbal THEN SANLK_DBLOCK_MBAL
    ELSE phase2_scan(dbs, dblock, q + 1)

\* ------------------------------------------------- paxos_lease_acquire
\* goto run: next_lver and our_mbal from the lease read; with copy_cur_leader
\* the first pass through retry_ballot re-uses cur_leader, whose checks pass.
\* The locals of the owner wait loop are dead from here on (a restart assigns
\* them again before any use), so they are reset.
run(a, h, copy_cur_leader) ==
  [pc  |-> IF copy_cur_leader THEN "p1_write" ELSE "retry_ballot",
   acq |-> [a EXCEPT !.next_lver = a.cur_leader.lver + 1,
                     !.our_mbal = first_mbal(a.max_mbal, h),
                     !.wait_start = 0, !.last_timestamp = 0,
                     !.hs = ZeroHs, !.wake = 0]]

\* goto out with an error and, where the code copies one, leader_ret
out(a, error) == [pc |-> "done", acq |-> [a EXCEPT !.result = error]]

\* goto restart
restart(a) == [pc |-> "lease_read", acq |-> a]

\* the ballot stays inside the explored range
WithinBounds(o) ==
  /\ o.acq.next_lver <= MaxLver
  /\ o.acq.our_mbal <= MaxMbal

Goto(h, o) ==
  /\ WithinBounds(o)
  /\ pc' = [pc EXCEPT ![h] = o.pc]
  /\ acq' = [acq EXCEPT ![h] = o.acq]

\* the inputs of an acquire call: flags and acquire_lver
AcquireInputs == {[flags |-> {}, acquire_lver |-> 0]}

\* the inputs of an acquire call for a shared lease
SharedInputs == {[flags |-> {PAXOS_ACQUIRE_SHARED}, acquire_lver |-> 0]}

\* a client asks for r: paxos_lease_acquire is entered
AcquireBegin(h, inputs) ==
  /\ alive[h] /\ pc[h] = "idle" /\ ~tok[h].held
  /\ \E in \in inputs :
       acq' = [acq EXCEPT ![h] = [ZeroAcq EXCEPT !.flags = in.flags,
                                                  !.acquire_lver = in.acquire_lver]]
  /\ pc' = [pc EXCEPT ![h] = "lease_read"]
  /\ UNCHANGED <<others, mblocks, now, leader, dblocks, delta, hstatus, alive, tok, hist>>

\* host_info and the choice of wait_start / last_timestamp
owner_wait(a, h) ==
  LET cur == a.cur_leader
      hs  == hstatus[h][cur.owner_id]
      known == /\ hs.last_check # 0 /\ hs.last_live # 0
               /\ hs.owner_id = cur.owner_id
               /\ hs.owner_generation = cur.owner_generation
  IN [pc  |-> "delta_read",
      acq |-> [a EXCEPT !.hs = hs,
                        !.wait_start = IF known THEN hs.last_live ELSE now,
                        !.last_timestamp = IF known THEN hs.timestamp ELSE 0]]

\* faulty variant of lease_read: a leader that already names the caller is
\* answered from the lease read alone, without a ballot
lease_read_readonly(a0, h) ==
  LET a == [a0 EXCEPT !.cur_leader = leader,
                      !.max_mbal = lease_read_max_mbal(dblocks, 1, 0),
                      !.ballots = 0]
      cur == a.cur_leader
  IN IF verify_leader(cur) # SANLK_OK THEN out(a, verify_leader(cur))
     ELSE IF PAXOS_ACQUIRE_FORCE \in a.flags THEN run(a, h, TRUE)
     ELSE IF a.acquire_lver # 0 /\ cur.lver # a.acquire_lver
       THEN out(a, SANLK_ACQUIRE_LVER)
     ELSE IF cur.timestamp = LEASE_FREE THEN run(a, h, TRUE)
     ELSE IF cur.owner_id = h /\ cur.owner_generation = tok[h].host_generation
       THEN out([a EXCEPT !.leader_ret = cur], SANLK_OK)
     ELSE IF cur.owner_id = h /\ cur.owner_generation < tok[h].host_generation
       THEN run(a, h, TRUE)
     ELSE owner_wait(a, h)

\* faulty variant of lease_read: a leader of the caller's host_id with an
\* older generation is waited for like that of any other host
lease_read_wait_own(a0, h) ==
  LET a == [a0 EXCEPT !.cur_leader = leader,
                      !.max_mbal = lease_read_max_mbal(dblocks, 1, 0),
                      !.ballots = 0]
      cur == a.cur_leader
  IN IF verify_leader(cur) # SANLK_OK THEN out(a, verify_leader(cur))
     ELSE IF PAXOS_ACQUIRE_FORCE \in a.flags THEN run(a, h, TRUE)
     ELSE IF a.acquire_lver # 0 /\ cur.lver # a.acquire_lver
       THEN out(a, SANLK_ACQUIRE_LVER)
     ELSE IF cur.timestamp = LEASE_FREE THEN run(a, h, TRUE)
     ELSE IF cur.owner_id = h /\ cur.owner_generation = tok[h].host_generation
       THEN run(a, h, TRUE)
     ELSE owner_wait(a, h)

\* label restart: paxos_lease_read and the checks up to the owner wait loop
lease_read(a0, h) ==
  LET a == [a0 EXCEPT !.cur_leader = leader,
                      !.max_mbal = lease_read_max_mbal(dblocks, 1, 0),
                      !.ballots = 0]
      cur == a.cur_leader
  IN IF verify_leader(cur) # SANLK_OK THEN out(a, verify_leader(cur))
     ELSE IF PAXOS_ACQUIRE_FORCE \in a.flags THEN run(a, h, TRUE)
     ELSE IF a.acquire_lver # 0 /\ cur.lver # a.acquire_lver
       THEN out(a, SANLK_ACQUIRE_LVER)
     ELSE IF cur.timestamp = LEASE_FREE THEN run(a, h, TRUE)
     ELSE IF cur.owner_id = h /\ cur.owner_generation = tok[h].host_generation
       THEN run(a, h, TRUE)
     ELSE IF cur.owner_id = h /\ cur.owner_generation < tok[h].host_generation
       THEN run(a, h, TRUE)
     ELSE owner_wait(a, h)

LeaseRead(h) ==
  /\ alive[h] /\ pc[h] = "lease_read"
  /\ Goto(h, lease_read(acq[h], h))
  /\ UNCHANGED <<others, mblocks, now, leader, dblocks, delta, hstatus, alive, tok, hist>>

\* skip_live_check: sleep(1)
sleep1(a) == [pc |-> "sleep", acq |-> [a EXCEPT !.wake = now + 1]]

\* faulty variant of delta_read: the owner counts as alive whenever the
\* renewal thread has ever seen it alive (last_check is not compared)
delta_read_seen_alive(a, h) ==
  LET cur == a.cur_leader
      hs  == a.hs
      host_id_leader == delta[cur.owner_id]
      other_host_dead_seconds == calc_host_dead_seconds(hs.io_timeout)
  IN IF host_id_leader.timestamp = LEASE_FREE THEN run(a, h, FALSE)
     ELSE IF \/ host_id_leader.owner_id # cur.owner_id
             \/ host_id_leader.owner_generation > cur.owner_generation
       THEN run(a, h, FALSE)
     ELSE IF a.last_timestamp = 0
       THEN sleep1([a EXCEPT !.last_timestamp = host_id_leader.timestamp])
     ELSE IF \/ host_id_leader.timestamp # a.last_timestamp
             \/ hs.last_live # 0
       THEN IF cur.write_id # cur.owner_id
              THEN [pc |-> "owner_dblock", acq |-> [a EXCEPT !.leader_ret = cur]]
              ELSE out([a EXCEPT !.leader_ret = cur], SANLK_ACQUIRE_IDLIVE)
     ELSE IF now - a.wait_start > other_host_dead_seconds THEN run(a, h, FALSE)
     ELSE IF PAXOS_ACQUIRE_OWNER_NOWAIT \in a.flags
       THEN out(a, SANLK_ACQUIRE_OWNED_RETRY)
     ELSE sleep1(a)

\* faulty variant of delta_read: a delta lease of another owner_id or of a
\* later generation is waited for like the owner's own
delta_read_same_owner(a, h) ==
  LET cur == a.cur_leader
      hs  == a.hs
      host_id_leader == delta[cur.owner_id]
      other_host_dead_seconds == calc_host_dead_seconds(hs.io_timeout)
  IN IF host_id_leader.timestamp = LEASE_FREE THEN run(a, h, FALSE)
     ELSE IF a.last_timestamp = 0
       THEN sleep1([a EXCEPT !.last_timestamp = host_id_leader.timestamp])
     ELSE IF \/ host_id_leader.timestamp # a.last_timestamp
             \/ (hs.last_live # 0 /\ hs.last_check = hs.last_live)
       THEN IF cur.write_id # cur.owner_id
              THEN [pc |-> "owner_dblock", acq |-> [a EXCEPT !.leader_ret = cur]]
              ELSE out([a EXCEPT !.leader_ret = cur], SANLK_ACQUIRE_IDLIVE)
     ELSE IF now - a.wait_start > other_host_dead_seconds THEN run(a, h, FALSE)
     ELSE IF PAXOS_ACQUIRE_OWNER_NOWAIT \in a.flags
       THEN out(a, SANLK_ACQUIRE_OWNED_RETRY)
     ELSE sleep1(a)

\* one pass of the while(1) loop: read the owner's delta lease and judge it
delta_read(a, h) ==
  LET cur == a.cur_leader
      hs  == a.hs
      host_id_leader == delta[cur.owner_id]
      other_host_dead_seconds == calc_host_dead_seconds(hs.io_timeout)
  IN IF host_id_leader.timestamp = LEASE_FREE THEN run(a, h, FALSE)
     ELSE IF \/ host_id_leader.owner_id # cur.owner_id
             \/ host_id_leader.owner_generation > cur.owner_generation
       THEN run(a, h, FALSE)
     ELSE IF a.last_timestamp = 0
       THEN sleep1([a EXCEPT !.last_timestamp = host_id_leader.timestamp])
     ELSE IF \/ host_id_leader.timestamp # a.last_timestamp
             \/ (hs.last_live # 0 /\ hs.last_check = hs.last_live)
       THEN IF cur.write_id # cur.owner_id
              THEN [pc |-> "owner_dblock", acq |-> [a EXCEPT !.leader_ret = cur]]
              ELSE out([a EXCEPT !.leader_ret = cur], SANLK_ACQUIRE_IDLIVE)
     ELSE IF now - a.wait_start > other_host_dead_seconds THEN run(a, h, FALSE)
     ELSE IF PAXOS_ACQUIRE_OWNER_NOWAIT \in a.flags
       THEN out(a, SANLK_ACQUIRE_OWNED_RETRY)
     ELSE sleep1(a)

DeltaRead(h) ==
  /\ alive[h] /\ pc[h] = "delta_read"
  /\ Goto(h, delta_read(acq[h], h))
  /\ UNCHANGED <<others, mblocks, now, leader, dblocks, delta, hstatus, alive, tok, hist>>

\* faulty variant of owner_dblock: a released dblock of the owner is ignored
owner_dblock_never(a, h) == out(a, SANLK_ACQUIRE_IDLIVE)

\* faulty variant of owner_dblock: the released flag is not tested
owner_dblock_unchecked(a, h) == run(a, h, FALSE)

\* the owner looks alive but did not write the leader: read its dblock
owner_dblock(a, h) ==
  IF DBLOCK_FL_RELEASED \in dblocks[a.cur_leader.owner_id].flags
    THEN run(a, h, FALSE)
    ELSE out(a, SANLK_ACQUIRE_IDLIVE)

OwnerDblockRead(h) ==
  /\ alive[h] /\ pc[h] = "owner_dblock"
  /\ Goto(h, owner_dblock(acq[h], h))
  /\ UNCHANGED <<others, mblocks, now, leader, dblocks, delta, hstatus, alive, tok, hist>>

\* after sleep(1): re-read our leader; restart if it changed
leader_reread(a) ==
  IF leader_differs(a.cur_leader, leader) THEN restart(a)
  ELSE [pc |-> "delta_read", acq |-> a]

LeaderReread(h) ==
  /\ alive[h] /\ pc[h] = "sleep" /\ now >= acq[h].wake
  /\ Goto(h, leader_reread(acq[h]))
  /\ UNCHANGED <<others, mblocks, now, leader, dblocks, delta, hstatus, alive, tok, hist>>

\* faulty variant of retry_ballot: the leader is not read again
retry_ballot_blind(a, h) == [pc |-> "p1_write", acq |-> a]

\* label retry_ballot, reached without copy_cur_leader: re-read the leader
retry_ballot(a, h) ==
  LET tmp_leader == leader IN
  IF tmp_leader.lver = a.next_lver
    THEN IF /\ tmp_leader.owner_id = h
            /\ tmp_leader.owner_generation = tok[h].host_generation
           THEN out([a EXCEPT !.leader_ret = tmp_leader], SANLK_OK)
           ELSE out([a EXCEPT !.leader_ret = tmp_leader], SANLK_ACQUIRE_OWNED)
  ELSE IF tmp_leader.lver > a.next_lver THEN restart(a)
  ELSE IF leader_differs(a.cur_leader, tmp_leader) THEN restart(a)
  ELSE [pc |-> "p1_write", acq |-> a]

RetryBallot(h) ==
  /\ alive[h] /\ pc[h] = "retry_ballot"
  /\ Goto(h, retry_ballot(acq[h], h))
  /\ UNCHANGED <<others, mblocks, now, leader, dblocks, delta, hstatus, alive, tok, hist>>

\* ------------------------------------------------------------ run_ballot
\* faulty variant of ballot_retry: the error of run_ballot is returned
ballot_return(a) == out(a, SANLK_DBLOCK_MBAL)

\* an MBAL or LVER abort of run_ballot: our_mbal += max_hosts, goto retry_ballot
ballot_retry(a) ==
  [pc |-> "retry_ballot", acq |-> [a EXCEPT !.our_mbal = a.our_mbal + max_hosts]]

\* write_dblock writes the whole sector: the mode block in it becomes zero,
\* except with T_WRITE_DBLOCK_MBLOCK_SH, where MBLOCK_SHARED is written again
write_dblock_mblock(t) ==
  IF T_WRITE_DBLOCK_MBLOCK_SH \in t.flags THEN {MBLOCK_SHARED} ELSE {}

\* phase 1, write: our dblock with the new mbal and lver, everything else zero
phase1_dblock(a) == [ZeroDblock EXCEPT !.mbal = a.our_mbal, !.lver = a.next_lver]

Phase1Write(h) ==
  /\ alive[h] /\ pc[h] = "p1_write"
  /\ LET d == phase1_dblock(acq[h]) IN
       /\ dblocks' = [dblocks EXCEPT ![h] = d]
       /\ acq' = [acq EXCEPT ![h].dblock = d,
                             ![h].ballots = IF @ < MaxBallots THEN @ + 1 ELSE @]
  /\ mblocks' = [mblocks EXCEPT ![h] = write_dblock_mblock(tok[h])]
  /\ pc' = [pc EXCEPT ![h] = "p1_read"]
  /\ UNCHANGED <<others, now, leader, delta, hstatus, alive, tok, hist>>

\* check_mode_block of host_id q's sector: the host_ids it adds to those the
\* token counts as shared holders (shared_count)
check_mode_block(mbs, q) == IF MBLOCK_SHARED \in mbs[q] THEN {q} ELSE {}

\* run_ballot, phase 1: the mode blocks passed to check_mode_block before the
\* loop over q ends or aborts
RECURSIVE phase1_mode_blocks(_, _, _, _, _)
phase1_mode_blocks(dbs, mbs, dblock, q, seen) ==
  IF q > num_hosts THEN seen
  ELSE LET bk == dbs[q]
           seen_q == seen \cup check_mode_block(mbs, q) IN
    IF bk.lver > dblock.lver THEN seen_q
    ELSE IF bk.lver = dblock.lver /\ bk.mbal > dblock.mbal THEN seen_q
    ELSE phase1_mode_blocks(dbs, mbs, dblock, q + 1, seen_q)

\* faulty variant of phase1_read: a shared mode block of another host ends
\* the acquire with SANLK_ACQUIRE_SH
phase1_read_refuse_sh(a0, h) ==
  LET a == [a0 EXCEPT !.shared = phase1_mode_blocks(dblocks, mblocks, a0.dblock, 1, {})]
      s == phase1_scan(dblocks, a.dblock, 1, ZeroDblock)
      bk_max == s.bk_max
      chosen == IF bk_max.inp # 0
                  THEN [a.dblock EXCEPT !.inp = bk_max.inp, !.inp2 = bk_max.inp2,
                                        !.inp3 = bk_max.inp3, !.bal = a.dblock.mbal]
                  ELSE [a.dblock EXCEPT !.inp = h, !.inp2 = tok[h].host_generation,
                                        !.inp3 = now, !.bal = a.dblock.mbal]
  IN IF a.shared \ {h} # {} /\ PAXOS_ACQUIRE_SHARED \notin a.flags
       THEN out(a, SANLK_ACQUIRE_SH)
     ELSE IF s.error # SANLK_OK THEN ballot_retry(a)
     ELSE [pc |-> "p2_write", acq |-> [a EXCEPT !.dblock = chosen]]

\* faulty variant of phase1_read: our own inp is proposed even when another
\* dblock of this lver already carries one
phase1_read_own(a0, h) ==
  LET a == [a0 EXCEPT !.shared = phase1_mode_blocks(dblocks, mblocks, a0.dblock, 1, {})]
      s == phase1_scan(dblocks, a.dblock, 1, ZeroDblock)
      chosen == [a.dblock EXCEPT !.inp = h, !.inp2 = tok[h].host_generation,
                                 !.inp3 = now, !.bal = a.dblock.mbal]
  IN IF s.error # SANLK_OK THEN ballot_retry(a)
     ELSE [pc |-> "p2_write", acq |-> [a EXCEPT !.dblock = chosen]]

\* phase 1, read: abort on a larger lver or mbal, else choose inp and set bal
phase1_read(a0, h) ==
  LET a == [a0 EXCEPT !.shared = phase1_mode_blocks(dblocks, mblocks, a0.dblock, 1, {})]
      s == phase1_scan(dblocks, a.dblock, 1, ZeroDblock)
      bk_max == s.bk_max
      chosen == IF bk_max.inp # 0
                  THEN [a.dblock EXCEPT !.inp = bk_max.inp, !.inp2 = bk_max.inp2,
                                        !.inp3 = bk_max.inp3, !.bal = a.dblock.mbal]
                  ELSE [a.dblock EXCEPT !.inp = h, !.inp2 = tok[h].host_generation,
                                        !.inp3 = now, !.bal = a.dblock.mbal]
  IN IF s.error # SANLK_OK THEN ballot_retry(a)
     ELSE [pc |-> "p2_write", acq |-> [a EXCEPT !.dblock = chosen]]

Phase1Read(h) ==
  /\ alive[h] /\ pc[h] = "p1_read"
  /\ Goto(h, phase1_read(acq[h], h))
  /\ UNCHANGED <<others, mblocks, now, leader, dblocks, delta, hstatus, alive, tok, hist>>

Phase2Write(h) ==
  /\ alive[h] /\ pc[h] = "p2_write"
  /\ dblocks' = [dblocks EXCEPT ![h] = acq[h].dblock]
  /\ mblocks' = [mblocks EXCEPT ![h] = write_dblock_mblock(tok[h])]
  /\ pc' = [pc EXCEPT ![h] = "p2_read"]
  /\ UNCHANGED <<others, now, leader, delta, hstatus, alive, tok, acq, hist>>

\* faulty variant of phase2_read: the ballot never succeeds
phase2_read_never(a) == ballot_retry(a)

\* phase 2, read: abort on a larger lver or mbal, else the ballot succeeded
phase2_read(a) ==
  IF phase2_scan(dblocks, a.dblock, 1) # SANLK_OK THEN ballot_retry(a)
  ELSE [pc |-> "write_leader", acq |-> a]

BallotValue(d) ==
  [lver |-> d.lver, inp |-> d.inp, inp2 |-> d.inp2, inp3 |-> d.inp3]

\* faulty variant of ballot_retract: any error of phase 2 sets the flag
ballot_retract_any(phase2, error) ==
  IF phase2 /\ error # SANLK_OK THEN {T_RETRACT_PAXOS} ELSE {}

\* run_ballot, label out: the flag a failed ballot adds to the token
ballot_retract(phase2, error) ==
  IF phase2 /\ error # SANLK_OK
       /\ (error = SANLK_DBLOCK_READ \/ error = SANLK_DBLOCK_WRITE)
    THEN {T_RETRACT_PAXOS} ELSE {}

Phase2Read(h) ==
  /\ alive[h] /\ pc[h] = "p2_read"
  /\ LET o == phase2_read(acq[h]) IN
       /\ Goto(h, o)
       /\ hist' = IF o.pc = "write_leader"
                    THEN [hist EXCEPT !.ballots = @ \cup {BallotValue(acq[h].dblock)}]
                    ELSE hist
  /\ tok' = [tok EXCEPT ![h].flags =
               @ \cup ballot_retract(TRUE, phase2_scan(dblocks, acq[h].dblock, 1))]
  /\ UNCHANGED <<others, mblocks, now, leader, dblocks, delta, hstatus, alive>>

\* faulty variant of new_leader: the lver of the leader read is kept
new_leader_same_lver(a, h) ==
  LET d == a.dblock
  IN [a.cur_leader EXCEPT !.owner_id = d.inp,
                          !.owner_generation = d.inp2, !.timestamp = d.inp3,
                          !.write_id = h,
                          !.write_generation = tok[h].host_generation,
                          !.write_timestamp = now,
                          !.flags = @ \ {LFL_SHORT_HOLD}]

\* ballot success: the leader committed for next_lver
new_leader(a, h) ==
  LET d == a.dblock
      nl == [a.cur_leader EXCEPT !.lver = d.lver, !.owner_id = d.inp,
                                 !.owner_generation = d.inp2, !.timestamp = d.inp3,
                                 !.write_id = h,
                                 !.write_generation = tok[h].host_generation,
                                 !.write_timestamp = now]
  IN IF nl.owner_id = h
       THEN IF PAXOS_ACQUIRE_SHARED \in a.flags
              THEN [nl EXCEPT !.flags = @ \cup {LFL_SHORT_HOLD}]
              ELSE [nl EXCEPT !.flags = @ \ {LFL_SHORT_HOLD}]
       ELSE nl

\* faulty variant of commit_result: the committed owner is not looked at
commit_result_ok(nl, h) == SANLK_OK

\* the return value after write_new_leader succeeded
commit_result(nl, h) ==
  IF nl.owner_id # h THEN SANLK_ACQUIRE_OTHER ELSE SANLK_OK

CommitValue(nl) ==
  [lver |-> nl.lver, owner_id |-> nl.owner_id,
   owner_generation |-> nl.owner_generation, timestamp |-> nl.timestamp]

WriteLeader(h) ==
  /\ alive[h] /\ pc[h] = "write_leader"
  /\ LET nl == new_leader(acq[h], h) IN
       /\ leader' = nl
       /\ acq' = [acq EXCEPT ![h].leader_ret = nl, ![h].result = commit_result(nl, h)]
       /\ hist' = [hist EXCEPT !.commits = @ \cup {CommitValue(nl)}]
  /\ pc' = [pc EXCEPT ![h] = "done"]
  /\ UNCHANGED <<others, mblocks, now, dblocks, delta, hstatus, alive, tok>>

\* paxos_lease_acquire returns; on SANLK_OK the caller keeps the token
AcquireReturn(h) ==
  /\ alive[h] /\ pc[h] = "done"
  /\ tok' = IF acq[h].result = SANLK_OK
              THEN [tok EXCEPT ![h].held = TRUE, ![h].leader = acq[h].leader_ret,
                               ![h].before = acq[h].cur_leader]
              ELSE tok
  /\ acq' = [acq EXCEPT ![h] = ZeroAcq]
  /\ pc' = [pc EXCEPT ![h] = "idle"]
  /\ UNCHANGED <<others, mblocks, now, leader, dblocks, delta, hstatus, alive, hist>>

\* ------------------------------------------------- paxos_lease_release
\* the caller of paxos_lease_release first marks its dblock released
ReleaseBegin(h) ==
  /\ alive[h] /\ pc[h] = "idle" /\ tok[h].held
  /\ tok' = [tok EXCEPT ![h].held = FALSE]
  /\ dblocks' = [dblocks EXCEPT ![h].flags = @ \cup {DBLOCK_FL_RELEASED}]
  /\ pc' = [pc EXCEPT ![h] = "rel_read"]
  /\ UNCHANGED <<others, mblocks, now, leader, delta, hstatus, alive, acq, hist>>

\* faulty variant of release_read: a leader written by another host is not
\* left alone
release_read_no_skip(a, h) ==
  LET l == leader
      last == tok[h].leader
      ret(error) == [pc |-> "rel_done", acq |-> [a EXCEPT !.result = error]]
  IN IF l.lver # last.lver THEN ret(SANLK_RELEASE_LVER)
     ELSE IF l.timestamp = LEASE_FREE THEN ret(SANLK_RELEASE_OWNER)
     ELSE IF l.owner_id # h \/ l.owner_generation # tok[h].host_generation
       THEN ret(SANLK_RELEASE_OWNER)
     ELSE [pc |-> "rel_write", acq |-> [a EXCEPT !.cur_leader = l]]

\* faulty variant of release_read: a leader written by the caller is freed
\* without being verified
release_read_unverified(a, h) ==
  LET l == leader
      ret(error) == [pc |-> "rel_done", acq |-> [a EXCEPT !.result = error]]
  IN IF l.write_id # h THEN ret(SANLK_OK)
     ELSE [pc |-> "rel_write", acq |-> [a EXCEPT !.cur_leader = l]]

\* paxos_lease_release up to the leader write; leader_last is the token's leader
release_read(a, h) ==
  LET l == leader
      last == tok[h].leader
      ret(error) == [pc |-> "rel_done", acq |-> [a EXCEPT !.result = error]]
  IN IF l.write_id # h THEN ret(SANLK_OK)
     ELSE IF l.lver # last.lver THEN ret(SANLK_RELEASE_LVER)
     ELSE IF l.timestamp = LEASE_FREE THEN ret(SANLK_RELEASE_OWNER)
     ELSE IF l.owner_id # h \/ l.owner_generation # tok[h].host_generation
       THEN ret(SANLK_RELEASE_OWNER)
     ELSE IF leader_differs(l, last) THEN ret(SANLK_RELEASE_OWNER)
     ELSE [pc |-> "rel_write", acq |-> [a EXCEPT !.cur_leader = l]]

ReleaseRead(h) ==
  /\ alive[h] /\ pc[h] = "rel_read"
  /\ Goto(h, release_read(acq[h], h))
  /\ UNCHANGED <<others, mblocks, now, leader, dblocks, delta, hstatus, alive, tok, hist>>

\* faulty variant of released_leader: LFL_SHORT_HOLD stays set
released_leader_short_hold(l, h) ==
  [l EXCEPT !.timestamp = LEASE_FREE, !.write_id = h,
            !.write_generation = tok[h].host_generation,
            !.write_timestamp = now]

\* the leader written by release
released_leader(l, h) ==
  [l EXCEPT !.timestamp = LEASE_FREE, !.write_id = h,
            !.write_generation = tok[h].host_generation,
            !.write_timestamp = now, !.flags = @ \ {LFL_SHORT_HOLD}]

ReleaseWrite(h) ==
  /\ alive[h] /\ pc[h] = "rel_write"
  /\ LET nl == released_leader(acq[h].cur_leader, h) IN
       /\ leader' = nl
       /\ acq' = [acq EXCEPT ![h].leader_ret = nl, ![h].result = SANLK_OK]
  /\ pc' = [pc EXCEPT ![h] = "rel_done"]
  /\ UNCHANGED <<others, mblocks, now, dblocks, delta, hstatus, alive, tok, hist>>

ReleaseReturn(h) ==
  /\ alive[h] /\ pc[h] = "rel_done"
  /\ acq' = [acq EXCEPT ![h] = ZeroAcq]
  /\ pc' = [pc EXCEPT ![h] = "idle"]
  /\ UNCHANGED <<others, mblocks, now, leader, dblocks, delta, hstatus, alive, tok, hist>>

\* ------------------------------------------- delta leases, clock, hosts
\* one host_status entry after reading the delta lease dl of a host at `now`
host_status_update(hs, dl) ==
  [last_check |-> now,
   last_live  |-> IF dl.timestamp # hs.timestamp THEN now ELSE hs.last_live,
   timestamp  |-> dl.timestamp,
   owner_id   |-> dl.owner_id,
   owner_generation |-> dl.owner_generation,
   io_timeout |-> dl.io_timeout]

\* a renewal of host h's delta lease, followed by its scan of the host slots
Renew(h) ==
  /\ alive[h] /\ delta[h].timestamp < now
  /\ delta' = [delta EXCEPT ![h].timestamp = now]
  /\ hstatus' = [hstatus EXCEPT ![h] =
        [q \in Hosts |-> host_status_update(hstatus[h][q], delta'[q])]]
  /\ UNCHANGED <<others, mblocks, now, leader, dblocks, alive, pc, tok, acq, hist>>

\* a running host has renewed within host_dead_seconds, or its watchdog fired
Tick(cap) ==
  /\ now < cap
  /\ \A h \in Hosts : alive[h] =>
       (now + 1) - delta[h].timestamp < calc_host_dead_seconds(delta[h].io_timeout)
  /\ now' = now + 1
  /\ UNCHANGED <<others, mblocks, leader, dblocks, delta, hstatus, alive, pc, tok, acq, hist>>

\* every step of a running acquire call
Step ==
  \/ \E h \in Hosts : LeaseRead(h)
  \/ \E h \in Hosts : DeltaRead(h)
  \/ \E h \in Hosts : OwnerDblockRead(h)
  \/ \E h \in Hosts : LeaderReread(h)
  \/ \E h \in Hosts : RetryBallot(h)
  \/ \E h \in Hosts : Phase1Write(h)
  \/ \E h \in Hosts : Phase1Read(h)
  \/ \E h \in Hosts : Phase2Write(h)
  \/ \E h \in Hosts : Phase2Read(h)
  \/ \E h \in Hosts : WriteLeader(h)
  \/ \E h \in Hosts : AcquireReturn(h)

Release ==
  \/ \E h \in Hosts : ReleaseBegin(h)
  \/ \E h \in Hosts : ReleaseRead(h)
  \/ \E h \in Hosts : ReleaseWrite(h)
  \/ \E h \in Hosts : ReleaseReturn(h)

Next ==
  \/ \E h \in Hosts : AcquireBegin(h, AcquireInputs)
  \/ Step
  \/ Release
  \/ \E h \in Hosts : Renew(h)
  \/ Tick(MaxTime)

\* any number of acquire and release calls by all hosts; no host stops
Spec == Init /\ [][Next]_vars

NextShared ==
  \/ \E h \in Hosts : AcquireBegin(h, SharedInputs)
  \/ Step
  \/ Release
  \/ \E h \in Hosts : Renew(h)
  \/ Tick(MaxTime)

\* the same, every acquire asking for a shared lease
SpecShared == Init /\ [][NextShared]_vars

\* the host with the smallest host_id
FirstHost == CHOOSE h \in Hosts : \A g \in Hosts : h <= g

\* ------------------------------------------------------ paxos_lease_init
\* paxos_lease_init of r, run while no host uses r: one write of the whole
\* lease area, the leader in sector 0 and zeros in every other sector
PaxosLeaseInit(write_clear) ==
  /\ \A h \in Hosts : pc[h] \in {"idle", "dead"} /\ ~tok[h].held
  /\ leader' = init_leader(write_clear, now)
  /\ dblocks' = [q \in Hosts |-> ZeroDblock]
  /\ mblocks' = [q \in Hosts |-> {}]
  /\ UNCHANGED <<others, now, delta, hstatus, alive, pc, tok, acq, hist>>

\* what a lease area may hold before paxos_lease_init: a blank disk, or the
\* remains of an earlier use
DirtyLeaders ==
  {ZeroLeader} \cup
  {[init_leader(FALSE, 1) EXCEPT !.lver = MaxLver - 1, !.owner_id = num_hosts,
       !.owner_generation = 1, !.timestamp = t, !.write_id = w,
       !.write_generation = 1, !.write_timestamp = 1] :
     t \in {LEASE_FREE, 1}, w \in Hosts}

DirtyDblocks ==
  {ZeroDblock} \cup
  {[ZeroDblock EXCEPT !.mbal = first_mbal(0, num_hosts), !.bal = first_mbal(0, num_hosts),
       !.inp = num_hosts, !.inp2 = 1, !.inp3 = 1, !.lver = MaxLver, !.flags = f] :
     f \in {{}, {DBLOCK_FL_RELEASED}}}

\* a lease area not yet initialised; every host has acquired its host_id
InitDirty ==
  /\ now = 1
  /\ leader \in DirtyLeaders
  /\ dblocks \in [Hosts -> DirtyDblocks]
  /\ mblocks \in [Hosts -> {{}, {MBLOCK_SHARED}}]
  /\ delta = [q \in Hosts |-> DeltaLeader(q, 1, 1)]
  /\ hstatus = [h \in Hosts |-> [q \in Hosts |-> ZeroHs]]
  /\ alive = [h \in Hosts |-> TRUE]
  /\ pc = [h \in Hosts |-> "idle"]
  /\ tok = [h \in Hosts |-> ZeroToken(1)]
  /\ acq = [h \in Hosts |-> ZeroAcq]
  /\ hist = EmptyHist
  /\ MdOff /\ DmOff

NextAlone ==
  \/ \E write_clear \in BOOLEAN : PaxosLeaseInit(write_clear)
  \/ AcquireBegin(FirstHost, AcquireInputs \cup SharedInputs)
  \/ Step
  \/ Release
  \/ \E h \in Hosts : Renew(h)
  \/ Tick(MaxTime)

\* r is initialised and then used by one host only: no call is contended
SpecAlone == InitDirty /\ [][NextAlone]_vars

\* ------------------------------------------------- shared mode blocks
\* the holder of a shared lease writes its dblock sector again with a mode
\* block carrying MBLOCK_SHARED, and then gives the paxos lease back
MblockShared(h) ==
  /\ alive[h] /\ pc[h] = "idle" /\ tok[h].held
  /\ LFL_SHORT_HOLD \in tok[h].leader.flags
  /\ MBLOCK_SHARED \notin mblocks[h]
  /\ mblocks' = [mblocks EXCEPT ![h] = {MBLOCK_SHARED}]
  /\ UNCHANGED <<others, now, leader, dblocks, delta, hstatus, alive, pc, tok, acq, hist>>

\* the holder of a shared lease lets it go: its mode block is cleared
MblockClear(h) ==
  /\ alive[h] /\ pc[h] = "idle" /\ ~tok[h].held
  /\ MBLOCK_SHARED \in mblocks[h]
  /\ mblocks' = [mblocks EXCEPT ![h] = {}]
  /\ UNCHANGED <<others, now, leader, dblocks, delta, hstatus, alive, pc, tok, acq, hist>>

NextMode ==
  \/ AcquireBegin(FirstHost, SharedInputs)
  \/ \E h \in Hosts \ {FirstHost} : AcquireBegin(h, AcquireInputs)
  \/ Step
  \/ Release
  \/ \E h \in Hosts : MblockShared(h)
  \/ \E h \in Hosts : MblockClear(h)
  \/ \E h \in Hosts : Renew(h)
  \/ Tick(MaxTime)

\* FirstHost takes and leaves shared leases on r while the other hosts ask
\* for r exclusively
SpecMode == Init /\ [][NextMode]_vars

\* ------------------------------------------- the lease on several disks
\* r kept on NumDisks disks and used by FirstHost alone: no other host has
\* ever written a dblock of r.  A disk that became unreachable stays so; an
\* i/o to it fails at once (EIO) or after io_timeout (SANLK_AIO_TIMEOUT).
NumDisks == 3
Disks == 1 .. NumDisks

EIO                == "EIO"
SANLK_AIO_TIMEOUT  == "SANLK_AIO_TIMEOUT"
SANLK_LEADER_READ  == "SANLK_LEADER_READ"
SANLK_LEADER_WRITE == "SANLK_LEADER_WRITE"
SANLK_LEADER_DIFF  == "SANLK_LEADER_DIFF"

\* majority_disks(num_disks, num): num is more than half of num_disks
majority_disks(num_disks, num) ==
  IF num_disks = 1 THEN num >= 1 ELSE num >= (num_disks \div 2) + 1

\* the return value of one read or write of disk d
disk_io(d) ==
  IF disks[d].state = "ok" THEN SANLK_OK
  ELSE IF disks[d].state = "timeout" THEN SANLK_AIO_TIMEOUT
  ELSE EIO

\* the dblock sectors of disk d: ours, and the zero sectors of the other hosts
disk_dblocks(d) ==
  [q \in Hosts |-> IF q = FirstHost THEN disks[d].dblock ELSE ZeroDblock]

\* the disks an i/o reaches now
Reachable == {d \in Disks : disks[d].state = "ok"}

\* mtok when no call is running and r is not held
ZeroMtok ==
  [host_generation |-> 1, held |-> FALSE, leader |-> ZeroLeader, flags |-> {},
   cur_leader |-> ZeroLeader, max_mbal |-> 0, next_lver |-> 0, our_mbal |-> 0,
   dblock |-> ZeroDblock, nulled |-> {}, result |-> NONE,
   leader_ret |-> ZeroLeader]

\* the single-disk part of the model is not in use
CoreOff ==
  /\ now = 1
  /\ leader = ZeroLeader
  /\ dblocks = [q \in Hosts |-> ZeroDblock]
  /\ mblocks = [q \in Hosts |-> {}]
  /\ delta = [q \in Hosts |-> DeltaLeader(q, 1, 1)]
  /\ hstatus = [h \in Hosts |-> [q \in Hosts |-> ZeroHs]]
  /\ alive = [h \in Hosts |-> TRUE]
  /\ pc = [h \in Hosts |-> "idle"]
  /\ tok = [h \in Hosts |-> ZeroToken(1)]
  /\ acq = [h \in Hosts |-> ZeroAcq]
  /\ hist = EmptyHist

\* paxos_lease_init has written every disk; FirstHost holds its host_id
InitDisks ==
  /\ disks = [d \in Disks |-> [state |-> "ok", leader |-> init_leader(FALSE, 1),
                               dblock |-> ZeroDblock]]
  /\ mpc = "idle"
  /\ mtok = ZeroMtok
  /\ CoreOff /\ DmOff

corevars == <<now, leader, dblocks, mblocks, delta, hstatus, alive, pc, tok, acq, hist>>

\* a disk becomes unreachable, for good
DiskFail(d, how) ==
  /\ disks[d].state = "ok"
  /\ disks' = [disks EXCEPT ![d].state = how]
  /\ UNCHANGED <<mpc, mtok, dmvars, corevars>>

\* the inner loop that counts how often the same leader block repeats: the
\* first earlier disk whose leader matches gets the count
leader_reps_count(leaders, leader_reps, d) ==
  LET same == {i \in 1 .. d - 1 : leaders[i] = leaders[d]}
      reps1 == [leader_reps EXCEPT ![d] = 1]
  IN IF same = {} THEN reps1
     ELSE LET i == CHOOSE i \in same : \A j \in same : i <= j
          IN [reps1 EXCEPT ![i] = @ + 1]

\* the first disk whose leader repeats on a majority of disks, or 0
majority_leader(leader_reps) ==
  LET maj == {d \in Disks : majority_disks(NumDisks, leader_reps[d])}
  IN IF maj = {} THEN 0 ELSE CHOOSE d \in maj : \A e \in maj : d <= e

\* _lease_read_one of disk d
lease_read_one(d) ==
  IF disk_io(d) # SANLK_OK
    THEN [rv |-> disk_io(d), leader |-> ZeroLeader, mbal |-> 0]
    ELSE [rv |-> verify_leader(disks[d].leader), leader |-> disks[d].leader,
          mbal |-> lease_read_max_mbal(disk_dblocks(d), 1, 0)]

\* _lease_read_num, the loop over the disks: rv is that of the disk read last
RECURSIVE lease_read_num_loop(_, _)
lease_read_num_loop(d, st) ==
  IF d > NumDisks THEN st
  ELSE LET one == lease_read_one(d) IN
    IF one.rv # SANLK_OK
      THEN lease_read_num_loop(d + 1, [st EXCEPT !.rv = one.rv])
      ELSE LET leaders == [st.leaders EXCEPT ![d] = one.leader] IN
        lease_read_num_loop(d + 1,
          [rv |-> one.rv,
           num_reads |-> st.num_reads + 1,
           tmp_mbal |-> IF st.tmp_mbal = 0 \/ one.mbal > st.tmp_mbal
                          THEN one.mbal ELSE st.tmp_mbal,
           leaders |-> leaders,
           leader_reps |-> leader_reps_count(leaders, st.leader_reps, d)])

\* _lease_read_num: the leader found on a majority of the disks, and max_mbal
lease_read_num(leader_ret) ==
  LET st == lease_read_num_loop(1,
              [rv |-> SANLK_OK, num_reads |-> 0, tmp_mbal |-> 0,
               leaders |-> [d \in Disks |-> ZeroLeader],
               leader_reps |-> [d \in Disks |-> 0]])
      found == majority_leader(st.leader_reps)
  IN IF st.num_reads = 0
       THEN [rv |-> SANLK_DBLOCK_READ, leader |-> leader_ret, max_mbal |-> st.tmp_mbal]
     ELSE IF found = 0
       THEN [rv |-> SANLK_LEADER_DIFF, leader |-> leader_ret, max_mbal |-> st.tmp_mbal]
     ELSE [rv |-> st.rv, leader |-> st.leaders[found], max_mbal |-> st.tmp_mbal]

\* goto out of paxos_lease_acquire / return of paxos_lease_release
md_out(t, error) == [pc |-> "done", tok |-> [t EXCEPT !.result = error]]
md_ret(t, error) == [pc |-> "rel_done", tok |-> [t EXCEPT !.result = error]]

MdGoto(o) ==
  /\ o.tok.next_lver <= MaxLver
  /\ mpc' = o.pc
  /\ mtok' = o.tok

\* a client asks for r: paxos_lease_acquire(flags 0, acquire_lver 0)
MdAcquireBegin ==
  /\ mpc = "idle" /\ ~mtok.held
  /\ mpc' = "lease_read"
  /\ mtok' = [ZeroMtok EXCEPT !.leader = mtok.leader, !.flags = mtok.flags]
  /\ UNCHANGED <<disks, dmvars, corevars>>

\* label restart of paxos_lease_acquire: paxos_lease_read and the checks
\* after it; no other host uses r, so the owner is nobody or the caller
md_lease_read(t) ==
  LET r == lease_read_num(t.cur_leader)
      t1 == [t EXCEPT !.cur_leader = r.leader, !.max_mbal = r.max_mbal]
      cur == r.leader
      ballot == [pc |-> "p1_write",
              tok |-> [t1 EXCEPT !.next_lver = cur.lver + 1,
                                 !.our_mbal = first_mbal(r.max_mbal, FirstHost)]]
  IN IF r.rv # SANLK_OK THEN md_out(t1, r.rv)
     ELSE IF cur.timestamp = LEASE_FREE THEN ballot
     ELSE IF cur.owner_id = FirstHost /\ cur.owner_generation <= t.host_generation
       THEN ballot
     ELSE md_out([t1 EXCEPT !.leader_ret = cur], SANLK_ACQUIRE_IDLIVE)

MdLeaseRead ==
  /\ mpc = "lease_read"
  /\ MdGoto(md_lease_read(mtok))
  /\ UNCHANGED <<disks, dmvars, corevars>>

\* run_ballot, a loop of write_dblock over the disks
write_dblocks(d, pd) ==
  IF disk_io(d) = SANLK_OK THEN [disks[d] EXCEPT !.dblock = pd] ELSE disks[d]

\* run_ballot, phase 1 write
MdPhase1Write ==
  /\ mpc = "p1_write"
  /\ LET pd == phase1_dblock(mtok) IN
       /\ disks' = [d \in Disks |-> write_dblocks(d, pd)]
       /\ IF majority_disks(NumDisks, Cardinality(Reachable))
            THEN /\ mpc' = "p1_read"
                 /\ mtok' = [mtok EXCEPT !.dblock = pd, !.nulled = {}]
            ELSE /\ mpc' = "done"
                 /\ mtok' = [mtok EXCEPT !.dblock = pd, !.nulled = {},
                                         !.result = SANLK_DBLOCK_WRITE]
  /\ UNCHANGED <<dmvars, corevars>>

\* run_ballot, a loop of read_iobuf over the disks: the disks read, and the
\* iobufs given up after a timeout
ballot_reads(nulled) == {d \in Disks \ nulled : disk_io(d) = SANLK_OK}
ballot_nulled(nulled) ==
  nulled \cup {d \in Disks \ nulled : disk_io(d) = SANLK_AIO_TIMEOUT}

\* run_ballot, phase 1 read: the first abort met on a disk read, in disk order
RECURSIVE md_phase1_scan(_, _, _, _)
md_phase1_scan(read, dblock, d, bk_max) ==
  IF d > NumDisks THEN [error |-> SANLK_OK, bk_max |-> bk_max]
  ELSE IF d \notin read THEN md_phase1_scan(read, dblock, d + 1, bk_max)
  ELSE LET s == phase1_scan(disk_dblocks(d), dblock, 1, bk_max) IN
    IF s.error # SANLK_OK THEN s
    ELSE md_phase1_scan(read, dblock, d + 1, s.bk_max)

md_phase1_read(t) ==
  LET read == ballot_reads(t.nulled)
      t1 == [t EXCEPT !.nulled = ballot_nulled(t.nulled)]
      s == md_phase1_scan(read, t.dblock, 1, ZeroDblock)
      bk_max == s.bk_max
      chosen == IF bk_max.inp # 0
                  THEN [t.dblock EXCEPT !.inp = bk_max.inp, !.inp2 = bk_max.inp2,
                                        !.inp3 = bk_max.inp3, !.bal = t.dblock.mbal]
                  ELSE [t.dblock EXCEPT !.inp = FirstHost, !.inp2 = t.host_generation,
                                        !.inp3 = now, !.bal = t.dblock.mbal]
  IN IF s.error # SANLK_OK
       THEN [pc |-> "retry_ballot",
             tok |-> [t1 EXCEPT !.our_mbal = t.our_mbal + max_hosts]]
     ELSE IF ~majority_disks(NumDisks, Cardinality(read))
       THEN md_out(t1, SANLK_DBLOCK_READ)
     ELSE [pc |-> "p2_write", tok |-> [t1 EXCEPT !.dblock = chosen]]

MdPhase1Read ==
  /\ mpc = "p1_read"
  /\ MdGoto(md_phase1_read(mtok))
  /\ UNCHANGED <<disks, dmvars, corevars>>

\* run_ballot, phase 2 write; from here on a failed ballot is to be retracted
MdPhase2Write ==
  /\ mpc = "p2_write"
  /\ disks' = [d \in Disks |-> write_dblocks(d, mtok.dblock)]
  /\ IF majority_disks(NumDisks, Cardinality(Reachable))
       THEN mpc' = "p2_read" /\ mtok' = mtok
       ELSE /\ mpc' = "done"
            /\ mtok' = [mtok EXCEPT !.result = SANLK_DBLOCK_WRITE,
                                    !.flags = @ \cup {T_RETRACT_PAXOS}]
  /\ UNCHANGED <<dmvars, corevars>>

RECURSIVE md_phase2_scan(_, _, _)
md_phase2_scan(read, dblock, d) ==
  IF d > NumDisks THEN SANLK_OK
  ELSE IF d \notin read THEN md_phase2_scan(read, dblock, d + 1)
  ELSE LET e == phase2_scan(disk_dblocks(d), dblock, 1) IN
    IF e # SANLK_OK THEN e ELSE md_phase2_scan(read, dblock, d + 1)

\* run_ballot, phase 2 read
md_phase2_read(t) ==
  LET read == ballot_reads(t.nulled)
      t1 == [t EXCEPT !.nulled = ballot_nulled(t.nulled)]
      e == md_phase2_scan(read, t.dblock, 1)
  IN IF e # SANLK_OK
       THEN [pc |-> "retry_ballot",
             tok |-> [t1 EXCEPT !.our_mbal = t.our_mbal + max_hosts]]
     ELSE IF ~majority_disks(NumDisks, Cardinality(read))
       THEN md_out([t1 EXCEPT !.flags = @ \cup {T_RETRACT_PAXOS}], SANLK_DBLOCK_READ)
     ELSE [pc |-> "write_leader", tok |-> t1]

MdPhase2Read ==
  /\ mpc = "p2_read"
  /\ MdGoto(md_phase2_read(mtok))
  /\ UNCHANGED <<disks, dmvars, corevars>>

\* faulty variant of write_new_leader: one disk written is enough
write_new_leader_any ==
  IF Reachable # {} THEN SANLK_OK
  ELSE IF \E d \in Disks : disk_io(d) = SANLK_AIO_TIMEOUT THEN SANLK_AIO_TIMEOUT
  ELSE disk_io(NumDisks)

\* write_new_leader, the return value: rv is that of the disk written last
write_new_leader ==
  IF majority_disks(NumDisks, Cardinality(Reachable)) THEN SANLK_OK
  ELSE IF \E d \in Disks : disk_io(d) = SANLK_AIO_TIMEOUT THEN SANLK_AIO_TIMEOUT
  ELSE IF disk_io(NumDisks) # SANLK_OK THEN disk_io(NumDisks)
  ELSE SANLK_LEADER_WRITE

\* write_new_leader, the loop of write_leader over the disks
write_leaders(d, nl) ==
  IF disk_io(d) = SANLK_OK THEN [disks[d] EXCEPT !.leader = nl] ELSE disks[d]

\* ballot success: the new leader from the dblock values
md_new_leader(t) ==
  LET d == t.dblock
      nl == [t.cur_leader EXCEPT !.lver = d.lver, !.owner_id = d.inp,
                                 !.owner_generation = d.inp2, !.timestamp = d.inp3,
                                 !.write_id = FirstHost,
                                 !.write_generation = t.host_generation,
                                 !.write_timestamp = now]
  IN IF nl.owner_id = FirstHost THEN [nl EXCEPT !.flags = @ \ {LFL_SHORT_HOLD}] ELSE nl

MdWriteLeader ==
  /\ mpc = "write_leader"
  /\ LET nl == md_new_leader(mtok)
         error == write_new_leader
     IN /\ disks' = [d \in Disks |-> write_leaders(d, nl)]
        /\ mtok' = IF error # SANLK_OK
                     THEN [mtok EXCEPT !.flags = @ \cup {T_RETRACT_PAXOS},
                                       !.leader_ret = nl, !.result = error]
                     ELSE [mtok EXCEPT !.leader_ret = nl,
                                       !.result = commit_result(nl, FirstHost)]
  /\ mpc' = "done"
  /\ UNCHANGED <<dmvars, corevars>>

\* paxos_lease_acquire returns; on SANLK_OK the caller keeps the token
MdAcquireReturn ==
  /\ mpc = "done"
  /\ mtok' = [ZeroMtok EXCEPT !.held = mtok.result = SANLK_OK,
                              !.leader = IF mtok.result = SANLK_OK
                                           THEN mtok.leader_ret ELSE mtok.leader,
                              !.flags = mtok.flags]
  /\ mpc' = "idle"
  /\ UNCHANGED <<disks, dmvars, corevars>>

\* the caller lets r go: it sets DBLOCK_FL_RELEASED in our dblock and then
\* calls paxos_lease_release
MdReleaseBegin ==
  /\ mpc = "idle" /\ mtok.held
  /\ disks' = [d \in Disks |->
                 write_dblocks(d, [disks[d].dblock EXCEPT
                                     !.flags = @ \cup {DBLOCK_FL_RELEASED}])]
  /\ mtok' = [mtok EXCEPT !.held = FALSE]
  /\ mpc' = "rel_read"
  /\ UNCHANGED <<dmvars, corevars>>

\* what read_leader may leave in leaders[d] when the read of disk d failed:
\* its lr_end is not initialised
StackLeaders == {ZeroLeader} \cup {disks[d].leader : d \in Disks}

\* _leader_read_num, the loop over the disks
RECURSIVE leader_read_num_loop(_, _)
leader_read_num_loop(d, st) ==
  IF d > NumDisks THEN st
  ELSE IF disk_io(d) # SANLK_OK \/ verify_leader(disks[d].leader) # SANLK_OK
    THEN leader_read_num_loop(d + 1, st)
  ELSE leader_read_num_loop(d + 1,
         [st EXCEPT !.num_reads = @ + 1,
                    !.leader_reps = leader_reps_count(st.leaders, st.leader_reps, d)])

\* _leader_read_num; unread[d] is what leaders[d] holds for a disk not read
leader_read_num(unread) ==
  LET leaders == [d \in Disks |-> IF disk_io(d) = SANLK_OK THEN disks[d].leader
                                  ELSE unread[d]]
      st == leader_read_num_loop(1,
              [num_reads |-> 0, leaders |-> leaders,
               leader_reps |-> [d \in Disks |-> 0]])
      found == majority_leader(st.leader_reps)
  IN IF ~majority_disks(NumDisks, st.num_reads)
       THEN [rv |-> SANLK_LEADER_READ, leader |-> ZeroLeader]
     ELSE IF found = 0 THEN [rv |-> SANLK_LEADER_DIFF, leader |-> ZeroLeader]
     ELSE [rv |-> SANLK_OK, leader |-> leaders[found]]

\* paxos_lease_release up to the leader write
md_release_read(t, unread) ==
  LET r == leader_read_num(unread)
      l == r.leader
      last == t.leader
  IN IF r.rv # SANLK_OK THEN md_ret(t, r.rv)
     ELSE IF l.write_id # FirstHost THEN md_ret(t, SANLK_OK)
     ELSE IF l.lver # last.lver THEN md_ret(t, SANLK_RELEASE_LVER)
     ELSE IF l.timestamp = LEASE_FREE THEN md_ret(t, SANLK_RELEASE_OWNER)
     ELSE IF l.owner_id # FirstHost \/ l.owner_generation # t.host_generation
       THEN md_ret(t, SANLK_RELEASE_OWNER)
     ELSE IF leader_differs(l, last) THEN md_ret(t, SANLK_RELEASE_OWNER)
     ELSE [pc |-> "rel_write", tok |-> [t EXCEPT !.cur_leader = l]]

MdReleaseRead ==
  /\ mpc = "rel_read"
  /\ \E unread \in [Disks -> StackLeaders] : MdGoto(md_release_read(mtok, unread))
  /\ UNCHANGED <<disks, dmvars, corevars>>

\* the leader written by release
md_released_leader(t) ==
  [t.cur_leader EXCEPT !.timestamp = LEASE_FREE, !.write_id = FirstHost,
                       !.write_generation = t.host_generation,
                       !.write_timestamp = now, !.flags = @ \ {LFL_SHORT_HOLD}]

MdReleaseWrite ==
  /\ mpc = "rel_write"
  /\ LET nl == md_released_leader(mtok)
         error == write_new_leader
     IN /\ disks' = [d \in Disks |-> write_leaders(d, nl)]
        /\ mtok' = IF error # SANLK_OK
                     THEN [mtok EXCEPT !.result = error]
                     ELSE [mtok EXCEPT !.leader_ret = nl, !.result = SANLK_OK]
  /\ mpc' = "rel_done"
  /\ UNCHANGED <<dmvars, corevars>>

MdReleaseReturn ==
  /\ mpc = "rel_done"
  /\ mtok' = [ZeroMtok EXCEPT !.leader = mtok.leader, !.flags = mtok.flags]
  /\ mpc' = "idle"
  /\ UNCHANGED <<disks, dmvars, corevars>>

NextDisks ==
  \/ \E d \in Disks, how \in {"eio", "timeout"} : DiskFail(d, how)
  \/ MdAcquireBegin
  \/ MdLeaseRead
  \/ MdPhase1Write
  \/ MdPhase1Read
  \/ MdPhase2Write
  \/ MdPhase2Read
  \/ MdWriteLeader
  \/ MdAcquireReturn
  \/ MdReleaseBegin
  \/ MdReleaseRead
  \/ MdReleaseWrite
  \/ MdReleaseReturn

\* FirstHost acquires and releases r while disks of r become unreachable
SpecDisks == InitDisks /\ [][NextDisks]_vars

\* ------------------------------------------------------------- the daemon
\* main.c: the client table, the list of lockspaces with one lockspace name
\* in use, main_loop, and one command thread at a time.  The process behind
\* a client slot has registered its pid; commands for it arrive on its own
\* connection or, naming its pid, on another connection.
MaxGeneration == 2      \* the lockspace is added at most this many times

Clients == {1}                      \* the client slots in use
Resources == {"r1", "r2", "r3"}     \* the resources a command may name
SANLK_MAX_RESOURCES == 2            \* slots of cl->tokens
HostIds == {1, 2}                   \* host_ids a lockspace may be added with
SM_CMD_ACQUIRE == 1                 \* a command code other than 0
SIGTERM == "SIGTERM"
SIGKILL == "SIGKILL"
E2BIG == 7
ENOSPC == 28
ENOTTY == 25
EINVAL == 22
ENODEV == 19

\* the resources of an acquire command, header.data of them
Requests == {<<"r1">>, <<"r1", "r2">>, <<"r1", "r2", "r3">>}

\* struct client after memset(0) and fd = -1; polled: pollfd[ci].fd >= 0
ZeroClient ==
  [used |-> FALSE, fd |-> -1, pid |-> 0, cmd_active |-> 0, acquire_done |-> FALSE,
   pid_dead |-> FALSE, killing |-> 0, tokens |-> {}, polled |-> FALSE]

\* the command thread when none runs
ZeroWorker ==
  [pc |-> "idle", ci_target |-> 0, self |-> FALSE, res |-> <<>>,
   new_tokens_count |-> 0, new_tokens |-> <<>>,
   add_count |-> 0, open_count |-> 0, acquire_count |-> 0,
   pid_dead |-> FALSE, rv |-> 0, reply |-> 0]

\* a token of resource res with the lockspace values sp
\* freed: free_token was called on it, pointers to it dangle
NewToken(res, sp) ==
  [res |-> res, host_id |-> sp.host_id, host_generation |-> sp.host_generation,
   freed |-> FALSE]

\* the first n of the new tokens of the command thread
FirstTokens(n) == {worker.new_tokens[i] : i \in 1..n}

\* every client has connected and registered (SM_CMD_REGISTER: pid = ci); the
\* lockspace was added with host_id 1 and its delta lease is being renewed
InitDaemon ==
  /\ client = [ci \in Clients |->
                 [ZeroClient EXCEPT !.used = TRUE, !.fd = ci, !.pid = ci,
                                    !.polled = TRUE]]
  /\ space = [listed |-> TRUE, host_id |-> 1, host_generation |-> 1,
              killing_pids |-> 0, external_remove |-> FALSE, renewed |-> TRUE]
  /\ worker = ZeroWorker
  /\ supervisor = [external_shutdown |-> FALSE, blocked |-> FALSE, exited |-> FALSE]
  /\ sent = [alive |-> [ci \in Clients |-> TRUE],
             signals |-> [ci \in Clients |-> <<>>],
             stuck |-> {},
             held |-> {},
             added |-> {},
             removed |-> {},
             died_in_acquire |-> {},
             reaped |-> {},
             fault |-> FALSE]
  /\ CoreOff /\ MdOff

\* main_loop is running and not waiting for a mutex
MainRuns == ~supervisor.exited /\ ~supervisor.blocked

\* the command thread holds cl->mutex of client ci
HoldsMutex(ci) == worker.pc = "commit_space" /\ worker.ci_target = ci

\* get_space_info: the lockspace is found in the spaces list
get_space_info == IF space.listed THEN 0 ELSE -1

\* ---- process_cmd_thread_resource, SM_CMD_ACQUIRE for client ci
\* self: the command came on the client's own connection, which main_loop
\* ignores until the thread is done (client_ignore)
CmdAcquire(ci, self, req) ==
  /\ MainRuns
  /\ worker.pc = "idle"
  /\ client[ci].used /\ client[ci].pid > 0
  /\ self => (client[ci].polled /\ sent.alive[ci])
  /\ client[ci].cmd_active = 0
  /\ client' = [client EXCEPT ![ci].cmd_active = SM_CMD_ACQUIRE,
                              ![ci].polled = IF self THEN FALSE ELSE @]
  /\ worker' = [ZeroWorker EXCEPT !.pc = "entry", !.ci_target = ci, !.self = self,
                                  !.res = req, !.new_tokens_count = Len(req)]
  /\ UNCHANGED <<space, supervisor, sent, mdvars, corevars>>

\* empty slots of cl->tokens
empty_slots(cl) == SANLK_MAX_RESOURCES - Cardinality(cl.tokens)

\* cmd_acquire_thread: the checks of new_tokens_count, and the input for
\* which the tokens are allocated
AcqEntry ==
  /\ worker.pc = "entry" /\ ~supervisor.exited
  /\ LET cl == client[worker.ci_target] IN
       worker' =
         IF worker.new_tokens_count > SANLK_MAX_RESOURCES
           THEN [worker EXCEPT !.pc = "fail_reply", !.rv = -E2BIG]
         ELSE IF empty_slots(cl) < worker.new_tokens_count
           THEN [worker EXCEPT !.pc = "fail_reply", !.rv = -ENOSPC]
         ELSE [worker EXCEPT !.pc = "space_info",
                 !.new_tokens = [i \in 1..worker.new_tokens_count |->
                                   [res |-> worker.res[i], host_id |-> 0,
                                    host_generation |-> 0, freed |-> FALSE]]]
  /\ UNCHANGED <<client, space, supervisor, sent, mdvars, corevars>>

\* cmd_acquire_thread: get_space_info and the snapshot of host_id and
\* host_generation into each token
AcqSpaceInfo ==
  /\ worker.pc = "space_info" /\ ~supervisor.exited /\ ~supervisor.blocked
  /\ worker' = IF get_space_info < 0 \/ space.killing_pids # 0
                 THEN [worker EXCEPT !.pc = "fail_release", !.rv = get_space_info]
                 ELSE [worker EXCEPT !.pc = "add",
                         !.new_tokens = [i \in 1..worker.new_tokens_count |->
                                           NewToken(worker.res[i], space)]]
  /\ UNCHANGED <<client, space, supervisor, sent, mdvars, corevars>>

\* cmd_acquire_thread: add_resource for each token, until one fails
AcqAdd ==
  /\ worker.pc = "add" /\ ~supervisor.exited
  /\ \E n \in 0..worker.new_tokens_count :
       /\ \A i \in 1..n : worker.res[i] \notin {t.res : t \in sent.added}
       /\ n < worker.new_tokens_count =>
            worker.res[n + 1] \in {t.res : t \in sent.added}
       /\ sent' = [sent EXCEPT !.added = @ \cup FirstTokens(n)]
       /\ worker' = IF n < worker.new_tokens_count
                      THEN [worker EXCEPT !.pc = "fail_release", !.add_count = n,
                                          !.rv = -1]
                      ELSE [worker EXCEPT !.pc = "open", !.add_count = n]
  /\ UNCHANGED <<client, space, supervisor, mdvars, corevars>>

\* cmd_acquire_thread: open_disks for each token, until one finds no majority
AcqOpen ==
  /\ worker.pc = "open" /\ ~supervisor.exited
  /\ \E n \in 0..worker.new_tokens_count :
       worker' = IF n < worker.new_tokens_count
                   THEN [worker EXCEPT !.pc = "fail_release", !.open_count = n,
                                       !.rv = -ENODEV]
                   ELSE [worker EXCEPT !.pc = "acquire", !.open_count = n]
  /\ UNCHANGED <<client, space, supervisor, sent, mdvars, corevars>>

\* cmd_acquire_thread: acquire_token for each token, which takes the paxos
\* lease or fails
AcqToken ==
  /\ worker.pc = "acquire" /\ ~supervisor.exited
  /\ \E n \in 0..worker.new_tokens_count :
       /\ sent' = [sent EXCEPT !.held = @ \cup FirstTokens(n)]
       /\ worker' = IF n < worker.new_tokens_count
                      THEN [worker EXCEPT !.pc = "fail_release", !.acquire_count = n,
                                          !.rv = -1]
                      ELSE [worker EXCEPT !.pc = "commit", !.acquire_count = n]
  /\ UNCHANGED <<client, space, supervisor, mdvars, corevars>>

\* cmd_acquire_thread: cl->mutex is taken; the pid may be dead or the slots
\* full
AcqCommit ==
  /\ worker.pc = "commit" /\ ~supervisor.exited
  /\ LET cl == client[worker.ci_target] IN
       worker' =
         IF cl.pid_dead
           THEN [worker EXCEPT !.pc = "fail_dead", !.pid_dead = TRUE, !.rv = -ENOTTY]
         ELSE IF empty_slots(cl) < worker.new_tokens_count
           THEN [worker EXCEPT !.pc = "fail_release", !.rv = -ENOSPC]
         ELSE [worker EXCEPT !.pc = "commit_space"]
  /\ UNCHANGED <<client, space, supervisor, sent, mdvars, corevars>>

\* faulty variant of commit_space_ok: killing_pids is not looked at
commit_space_any(token) ==
  get_space_info = 0 /\ space.host_id = token.host_id

\* cmd_acquire_thread: the test of the lockspace before a token is
\* transferred
commit_space_ok(token) ==
  get_space_info = 0 /\ space.killing_pids = 0 /\ space.host_id = token.host_id

\* cmd_acquire_thread: still under cl->mutex, get_space_info for each token,
\* for which the mutex of the spaces list is needed; then the new tokens are
\* transferred into cl->tokens
AcqCommitSpace ==
  /\ worker.pc = "commit_space" /\ ~supervisor.exited /\ ~supervisor.blocked
  /\ LET ci == worker.ci_target IN
       IF \E i \in 1..worker.new_tokens_count : ~commit_space_ok(worker.new_tokens[i])
         THEN /\ worker' = [worker EXCEPT !.pc = "fail_release", !.rv = -EINVAL]
              /\ client' = client
         ELSE /\ worker' = [worker EXCEPT !.pc = "reply"]
              /\ client' = [client EXCEPT
                              ![ci].tokens = @ \cup FirstTokens(worker.new_tokens_count),
                              ![ci].acquire_done = TRUE,
                              ![ci].cmd_active = 0]
  /\ UNCHANGED <<space, supervisor, sent, mdvars, corevars>>

\* client_back(ci_in): main_loop polls the connection of the command again
client_back(cls, ci, self) ==
  IF self THEN [cls EXCEPT ![ci].polled = TRUE] ELSE cls

\* cmd_acquire_thread: the reply after success
AcqReply ==
  /\ worker.pc = "reply" /\ ~supervisor.exited
  /\ client' = client_back(client, worker.ci_target, worker.self)
  /\ worker' = ZeroWorker
  /\ UNCHANGED <<space, supervisor, sent, mdvars, corevars>>

\* the tokens ts after free_token
free_tokens(ts) == {[t EXCEPT !.freed = TRUE] : t \in ts}

\* cmd_acquire_thread, fail_dead: release, close, delete and free the old
\* tokens of the client; cl->tokens keeps the pointers
AcqFailDead ==
  /\ worker.pc = "fail_dead" /\ ~supervisor.exited
  /\ LET old == client[worker.ci_target].tokens IN
       /\ sent' = [sent EXCEPT !.held = @ \ old, !.added = @ \ old]
       /\ client' = [client EXCEPT ![worker.ci_target].tokens = free_tokens(@)]
  /\ worker' = [worker EXCEPT !.pc = "fail_release"]
  /\ UNCHANGED <<space, supervisor, mdvars, corevars>>

\* faulty variant of fail_rollback: the leases taken are kept
fail_rollback_keep(w) ==
  [held |-> sent.held,
   added |-> sent.added \ {w.new_tokens[i] : i \in 1 .. w.add_count}]

\* cmd_acquire_thread, fail_release .. fail_free: release_token for
\* acquire_count tokens, close_disks for open_count, del_resource for
\* add_count, free_token for all
fail_rollback(w) ==
  [held |-> sent.held \ {w.new_tokens[i] : i \in 1 .. w.acquire_count},
   added |-> sent.added \ {w.new_tokens[i] : i \in 1 .. w.add_count}]

AcqFailRelease ==
  /\ worker.pc = "fail_release" /\ ~supervisor.exited
  /\ LET r == fail_rollback(worker) IN
       sent' = [sent EXCEPT !.held = r.held, !.added = r.added]
  /\ worker' = [worker EXCEPT !.pc = "fail_reply"]
  /\ UNCHANGED <<client, space, supervisor, mdvars, corevars>>

\* client_dead: the slot is closed and zeroed
client_dead(cls, ci) == [cls EXCEPT ![ci] = ZeroClient]

\* cmd_acquire_thread, after fail_reply: h.data of the reply
fail_data(w) == -1

\* cmd_acquire_thread, fail_reply: set_cmd_active(0) and the reply
AcqFailReply ==
  /\ worker.pc = "fail_reply" /\ ~supervisor.exited
  /\ client' = [client EXCEPT ![worker.ci_target].cmd_active = 0]
  /\ worker' = [worker EXCEPT !.pc = "fail_end", !.reply = fail_data(worker)]
  /\ UNCHANGED <<space, supervisor, sent, mdvars, corevars>>

\* cmd_acquire_thread, after the reply: client_dead if this thread found the
\* pid dead, and client_back
AcqFailEnd ==
  /\ worker.pc = "fail_end" /\ ~supervisor.exited
  /\ LET ci == worker.ci_target
     IN client' = IF worker.pid_dead
                    THEN client_back(client_dead(client, ci), ci, worker.self)
                    ELSE client_back(client, ci, worker.self)
  /\ worker' = ZeroWorker
  /\ UNCHANGED <<space, supervisor, sent, mdvars, corevars>>

\* cmd_release_thread with SANLK_REL_ALL, on the client's own connection
CmdRelease(ci) ==
  /\ MainRuns
  /\ worker.pc = "idle"
  /\ client[ci].used /\ client[ci].pid > 0 /\ client[ci].polled /\ sent.alive[ci]
  /\ client[ci].cmd_active = 0
  /\ client[ci].tokens # {}
  /\ sent' = [sent EXCEPT !.held = @ \ client[ci].tokens,
                          !.added = @ \ client[ci].tokens]
  /\ client' = [client EXCEPT ![ci].tokens = {}]
  /\ UNCHANGED <<space, worker, supervisor, mdvars, corevars>>

\* the process of client ci exits: its end of the connection is closed
PidDies(ci) ==
  /\ sent.alive[ci]
  /\ client[ci].used
  /\ sent' = [sent EXCEPT !.alive[ci] = FALSE,
                          !.died_in_acquire =
                             IF worker.pc # "idle" /\ worker.ci_target = ci
                               THEN @ \cup {ci} ELSE @]
  /\ UNCHANGED <<client, space, worker, supervisor, mdvars, corevars>>

\* client_pid_dead: pid = -1, pid_dead = 1; the release of the tokens and
\* client_dead are left to a running cmd_acquire_thread; reaped: SIGKILL is
\* sent to the pid the slot had
client_pid_dead(ci) ==
  LET cl == client[ci]
      delay_release == cl.cmd_active = SM_CMD_ACQUIRE /\ ~cl.acquire_done
  IN IF delay_release
       THEN [client |-> [client EXCEPT ![ci].pid = -1, ![ci].pid_dead = TRUE],
             released |-> {},
             reaped |-> cl.pid > 0,
             fault |-> FALSE]
       ELSE [client |-> client_dead(client, ci),
             released |-> cl.tokens,
             reaped |-> cl.pid > 0,
             fault |-> \E t \in cl.tokens : t.freed]

\* main_loop: poll reports POLLHUP for the connection of client ci, deadfn;
\* fault: a token that was freed is released again
MainDead(ci) ==
  /\ MainRuns
  /\ ~HoldsMutex(ci)
  /\ client[ci].fd >= 0 /\ client[ci].polled
  /\ ~sent.alive[ci]
  /\ LET r == client_pid_dead(ci) IN
       /\ client' = r.client
       /\ sent' = [sent EXCEPT !.held = @ \ r.released,
                               !.added = @ \ r.released,
                               !.fault = @ \/ r.fault,
                               !.reaped = IF r.reaped THEN @ \cup {ci} ELSE @]
  /\ UNCHANGED <<space, worker, supervisor, mdvars, corevars>>

\* client_using_space: some token of the client is of the lockspace; the
\* space_name read from a freed token is anything
client_using_space(cl) ==
  IF \E t \in cl.tokens : ~t.freed THEN {TRUE}
  ELSE IF cl.tokens # {} THEN BOOLEAN
  ELSE {FALSE}

\* what client_using_space may return for each client
UsingSpace == {u \in [Clients -> BOOLEAN] :
                 \A ci \in Clients : u[ci] \in client_using_space(client[ci])}

\* the clients a round of kill_pids signals: those using the lockspace that
\* were signalled at most limit times
kill_found(using, limit) ==
  {ci \in Clients : /\ client[ci].used /\ client[ci].pid # 0
                    /\ using[ci]
                    /\ client[ci].killing <= limit}

\* kill_pids, the SIGTERM and the do_sigkill loop: signal the clients found
kill_round(killing_pids, sig, found) ==
  [client |-> [ci \in Clients |->
                 IF ci \in found THEN [client[ci] EXCEPT !.killing = @ + 1]
                 ELSE client[ci]],
   signals |-> [ci \in Clients |->
                  IF ci \in found
                    THEN Append(sent.signals[ci],
                                [pid |-> client[ci].pid, sig |-> sig])
                    ELSE sent.signals[ci]],
   stuck |-> sent.stuck,
   killing_pids |-> killing_pids + 1]

\* kill_pids, do_dump: log the clients that were signalled as stuck
kill_dump(killing_pids) ==
  [client |-> client, signals |-> sent.signals,
   stuck |-> sent.stuck \cup
              {ci \in Clients : client[ci].pid # 0 /\ client[ci].killing # 0},
   killing_pids |-> killing_pids + 1]

\* kill_pids, return at the top: nothing is done any more
kill_none(killing_pids) ==
  [client |-> client, signals |-> sent.signals, stuck |-> sent.stuck,
   killing_pids |-> killing_pids]

\* faulty variant of kill_pids: SIGKILL starts one round later
kill_pids_late(killing_pids, using) ==
  IF killing_pids > 11 THEN kill_none(killing_pids)
  ELSE IF killing_pids > 10 THEN kill_dump(killing_pids)
  ELSE IF killing_pids > 2
    THEN kill_round(killing_pids, SIGKILL, kill_found(using, 2))
  ELSE kill_round(killing_pids, SIGTERM, kill_found(using, 1))

\* kill_pids: one round, chosen by killing_pids
kill_pids(killing_pids, using) ==
  IF killing_pids > 11 THEN kill_none(killing_pids)
  ELSE IF killing_pids > 10 THEN kill_dump(killing_pids)
  ELSE IF killing_pids > 1
    THEN kill_round(killing_pids, SIGKILL, kill_found(using, 2))
  ELSE kill_round(killing_pids, SIGTERM, kill_found(using, 1))

\* all_pids_dead: no registered client uses the lockspace
all_pids_dead(using) ==
  ~ \E ci \in Clients : client[ci].used /\ client[ci].pid # 0 /\ using[ci]

\* main_loop: the lockspace has killing_pids set or gets it set in this pass
space_fails(sp) ==
  sp.killing_pids # 0 \/ supervisor.external_shutdown \/ sp.external_remove \/ ~sp.renewed

\* the pass calls client_using_space for a client whose cl->mutex the command
\* thread holds
MutexWanted ==
  /\ space.killing_pids <= 10
  /\ \E ci \in Clients : client[ci].used /\ client[ci].pid # 0 /\ HoldsMutex(ci)

\* main_loop: the pass over the spaces list, under the mutex of the list; it
\* waits inside client_using_space when cl->mutex is held
MainSpaces ==
  /\ MainRuns
  /\ space.listed
  /\ space_fails(space)
  /\ IF MutexWanted
       THEN /\ supervisor' = [supervisor EXCEPT !.blocked = TRUE]
            /\ UNCHANGED <<space, sent, client>>
       ELSE
     /\ supervisor' = supervisor
     /\ \E using \in UsingSpace :
        IF space.killing_pids # 0 /\ all_pids_dead(using)
          THEN /\ space' = [space EXCEPT !.listed = FALSE]
               /\ sent' = [sent EXCEPT !.removed = @ \cup
                             {[host_id |-> space.host_id,
                               host_generation |-> space.host_generation]}]
               /\ client' = client
          ELSE LET r == kill_pids(IF space.killing_pids # 0 THEN space.killing_pids
                                  ELSE 1, using)
               IN /\ space' = [space EXCEPT !.killing_pids = r.killing_pids]
                  /\ client' = r.client
                  /\ sent' = [sent EXCEPT !.signals = r.signals, !.stuck = r.stuck]
  /\ UNCHANGED <<worker, mdvars, corevars>>

\* main_loop: the spaces list is empty and external_shutdown is set: break
MainExit ==
  /\ MainRuns
  /\ supervisor.external_shutdown /\ ~space.listed
  /\ supervisor' = [supervisor EXCEPT !.exited = TRUE]
  /\ UNCHANGED <<client, space, worker, sent, mdvars, corevars>>

\* sigterm_handler, SM_CMD_SHUTDOWN: external_shutdown = 1
ExternalShutdown ==
  /\ ~supervisor.exited /\ ~supervisor.external_shutdown
  /\ supervisor' = [supervisor EXCEPT !.external_shutdown = TRUE]
  /\ UNCHANGED <<client, space, worker, sent, mdvars, corevars>>

\* the renewal of the host_id stops succeeding: host_id_renewed is false
RenewalFails ==
  /\ ~supervisor.exited
  /\ space.listed /\ space.renewed
  /\ space' = [space EXCEPT !.renewed = FALSE]
  /\ UNCHANGED <<client, worker, supervisor, sent, mdvars, corevars>>

\* a renewal of the host_id succeeds again: host_id_renewed is true
RenewalSucceeds ==
  /\ ~supervisor.exited
  /\ space.listed /\ ~space.renewed
  /\ space' = [space EXCEPT !.renewed = TRUE]
  /\ UNCHANGED <<client, worker, supervisor, sent, mdvars, corevars>>

\* cmd_rem_lockspace_thread, rem_space: the lockspace is to be removed
RemLockspace ==
  /\ MainRuns
  /\ space.listed /\ ~space.external_remove
  /\ space' = [space EXCEPT !.external_remove = TRUE]
  /\ UNCHANGED <<client, worker, supervisor, sent, mdvars, corevars>>

\* cmd_add_lockspace_thread, add_space: the host_id is acquired again, with
\* the next generation, and the lockspace is back in the spaces list
AddLockspace(host_id) ==
  /\ MainRuns
  /\ ~space.listed
  /\ space.host_generation < MaxGeneration
  /\ space' = [listed |-> TRUE, host_id |-> host_id,
               host_generation |-> space.host_generation + 1,
               killing_pids |-> 0, external_remove |-> FALSE, renewed |-> TRUE]
  /\ UNCHANGED <<client, worker, supervisor, sent, mdvars, corevars>>

AcqThread ==
  \/ AcqEntry
  \/ AcqSpaceInfo
  \/ AcqAdd
  \/ AcqOpen
  \/ AcqToken
  \/ AcqCommit
  \/ AcqCommitSpace
  \/ AcqReply
  \/ AcqFailDead
  \/ AcqFailRelease
  \/ AcqFailReply
  \/ AcqFailEnd

NextDaemon ==
  \/ \E ci \in Clients, self \in BOOLEAN, req \in Requests : CmdAcquire(ci, self, req)
  \/ AcqThread
  \/ \E ci \in Clients : CmdRelease(ci)
  \/ \E ci \in Clients : PidDies(ci)
  \/ \E ci \in Clients : MainDead(ci)
  \/ MainSpaces
  \/ MainExit
  \/ ExternalShutdown
  \/ RenewalFails
  \/ RenewalSucceeds
  \/ RemLockspace
  \/ \E host_id \in HostIds : AddLockspace(host_id)

\* the daemon serving its clients while pids die and the lockspace fails
SpecDaemon == InitDaemon /\ [][NextDaemon]_vars

\* the command thread runs to its end and main_loop keeps turning
FairDaemon ==
  /\ WF_vars(AcqThread)
  /\ \A ci \in Clients : WF_vars(MainDead(ci))
  /\ WF_vars(MainSpaces)
  /\ WF_vars(MainExit)

SpecDaemonFair == InitDaemon /\ [][NextDaemon]_vars /\ FairDaemon

\* ------------------------------------------------ reclaim after a crash
\* the leader after FirstHost won the ballot of lver 1 at time 1, written by w
OwnedLeader(w) ==
  [init_leader(FALSE, 1) EXCEPT !.lver = 1, !.owner_id = FirstHost, !.owner_generation = 1,
                     !.timestamp = 1, !.write_id = w, !.write_generation = 1,
                     !.write_timestamp = 1]

\* the dblock of host q after that ballot: FirstHost ran it with its first
\* mbal; a host that finished the same ballot later carries the same inp
OwnedDblock(q, w) ==
  IF q = FirstHost \/ q = w
    THEN [ZeroDblock EXCEPT !.mbal = first_mbal(0, q), !.bal = first_mbal(0, q),
                            !.inp = FirstHost, !.inp2 = 1, !.inp3 = 1, !.lver = 1]
    ELSE ZeroDblock

\* FirstHost took r at lver 1 and stopped (crashed, or was reset by its
\* watchdog) right after its renewal at time 1, without releasing r; the
\* leader was written by FirstHost or by a host that finished the same
\* ballot after it
InitReclaim ==
  /\ now = 1
  /\ \E w \in Hosts :
       /\ leader = OwnedLeader(w)
       /\ dblocks = [q \in Hosts |-> OwnedDblock(q, w)]
  /\ tok = [h \in Hosts |-> ZeroToken(1)]
  /\ delta = [q \in Hosts |-> DeltaLeader(q, 1, 1)]
  /\ hstatus = [h \in Hosts |-> [q \in Hosts |-> ZeroHs]]
  /\ alive = [h \in Hosts |-> h # FirstHost]
  /\ pc = [h \in Hosts |-> IF h = FirstHost THEN "dead" ELSE "idle"]
  /\ acq = [h \in Hosts |-> ZeroAcq]
  /\ hist = [ballots |-> {BallotValue(OwnedDblock(FirstHost, FirstHost))},
             commits |-> {CommitValue(OwnedLeader(FirstHost))}]
  /\ mblocks = [q \in Hosts |-> {}]
  /\ MdOff /\ DmOff

\* the scenario ends when r is held again
Reclaiming == \A h \in Hosts : ~tok[h].held

RenewReclaim(h) == Reclaiming /\ Renew(h)

\* no disk i/o stalls: a step of a running call takes less than a second
Prompt == \A h \in Hosts : pc[h] \in {"idle", "sleep", "dead"}

TickReclaim == Reclaiming /\ Prompt /\ Tick(MaxReclaimTime)

NextReclaim ==
  \/ \E h \in Hosts : AcquireBegin(h, AcquireInputs)
  \/ Step
  \/ \E h \in Hosts : RenewReclaim(h)
  \/ TickReclaim

\* every running host keeps renewing and every call in progress keeps taking
\* steps; a host that does not hold r keeps calling acquire; time passes
FairReclaim ==
  /\ SF_vars(TickReclaim)
  /\ \A h \in Hosts :
       /\ WF_vars(RenewReclaim(h))
       /\ WF_vars(AcquireBegin(h, AcquireInputs))
       /\ WF_vars(LeaseRead(h))
       /\ WF_vars(DeltaRead(h))
       /\ WF_vars(OwnerDblockRead(h))
       /\ WF_vars(LeaderReread(h))
       /\ WF_vars(RetryBallot(h))
       /\ WF_vars(Phase1Write(h))
       /\ WF_vars(Phase1Read(h))
       /\ WF_vars(Phase2Write(h))
       /\ WF_vars(Phase2Read(h))
       /\ WF_vars(WriteLeader(h))
       /\ WF_vars(AcquireReturn(h))

\* the owner of r has stopped; the other hosts try to acquire r
SpecReclaim == InitReclaim /\ [][NextReclaim]_vars /\ FairReclaim

\* ------------------------------------------------- a host joins again
MaxRejoinTime == 10     \* the clock of SpecRejoin stops here

\* host h stops: it crashes or is reset by its watchdog; its calls and its
\* token are gone, what it wrote stays on disk; wait_start: the time from
\* which its host_id slot is seen unchanged
Crash(h) ==
  /\ alive[h]
  /\ tok[h].host_generation < MaxGeneration
  /\ alive' = [alive EXCEPT ![h] = FALSE]
  /\ pc' = [pc EXCEPT ![h] = "dead"]
  /\ acq' = [acq EXCEPT ![h] = [ZeroAcq EXCEPT !.wait_start = now]]
  /\ tok' = [tok EXCEPT ![h] = ZeroToken(tok[h].host_generation)]
  /\ UNCHANGED <<others, mblocks, now, leader, dblocks, delta, hstatus, hist>>

\* host h acquires its host_id again: the slot was unchanged for
\* host_dead_seconds, and owner_generation is the one on disk plus one
Rejoin(h) ==
  /\ ~alive[h]
  /\ now - acq[h].wait_start >= calc_host_dead_seconds(delta[h].io_timeout)
  /\ alive' = [alive EXCEPT ![h] = TRUE]
  /\ pc' = [pc EXCEPT ![h] = "idle"]
  /\ acq' = [acq EXCEPT ![h] = ZeroAcq]
  /\ delta' = [delta EXCEPT ![h] = DeltaLeader(h, delta[h].owner_generation + 1, now)]
  /\ tok' = [tok EXCEPT ![h] = ZeroToken(delta[h].owner_generation + 1)]
  /\ hstatus' = [hstatus EXCEPT ![h] = [q \in Hosts |-> ZeroHs]]
  /\ UNCHANGED <<others, mblocks, now, leader, dblocks, hist>>

\* no host is away
AllJoined == \A h \in Hosts : alive[h]

\* while a host is away no call is in progress and every running host renews
\* its host_id each second
TickRejoin ==
  /\ ~AllJoined
  /\ Prompt
  /\ \A h \in Hosts : alive[h] => delta[h].timestamp = now
  /\ Tick(MaxRejoinTime)

\* the hosts start to acquire r when all of them have joined
AcquireJoined(h) == AllJoined /\ AcquireBegin(h, AcquireInputs)

NextRejoin ==
  \/ \E h \in Hosts : AcquireJoined(h)
  \/ Step
  \/ \E h \in Hosts : Renew(h)
  \/ \E h \in Hosts : Crash(h)
  \/ \E h \in Hosts : Rejoin(h)
  \/ TickRejoin

\* hosts acquire r, stop at any point and join the lockspace again with the
\* next generation
SpecRejoin == Init /\ [][NextRejoin]_vars

\* ------------------------------------------- contention for a free lease
\* r is still free: no ballot has been committed
Contended == leader.timestamp = LEASE_FREE /\ hist.commits = {}

\* the mbal and bal values in use: on disk, in the dblocks being written and
\* in our_mbal
MbalsInUse ==
  UNION {{dblocks[q].mbal, dblocks[q].bal, acq[q].dblock.mbal, acq[q].dblock.bal,
          acq[q].our_mbal} : q \in Hosts} \ {0}

\* an mbal or bal, renumbered
rebase(m) == IF m = 0 THEN 0 ELSE m - max_hosts

\* a dblock, renumbered
rebase_dblock(d) == [d EXCEPT !.mbal = rebase(@), !.bal = rebase(@)]

\* The code compares mbal and bal values with each other and with 0, and
\* first_mbal uses max_mbal modulo max_hosts; max_mbal is not read again
\* after run.  So when all values in use are above max_hosts, taking
\* max_hosts off each of them gives a state from which every host takes the
\* same steps: the hosts can be followed through any number of retries
\* inside the range up to MaxMbal.
Rebase ==
  /\ Contended
  /\ MbalsInUse # {}
  /\ \A m \in MbalsInUse : m > max_hosts
  /\ dblocks' = [q \in Hosts |-> rebase_dblock(dblocks[q])]
  /\ acq' = [q \in Hosts |->
               [acq[q] EXCEPT !.dblock = rebase_dblock(@), !.our_mbal = rebase(@)]]
  /\ UNCHANGED <<others, mblocks, now, leader, delta, hstatus, alive, pc, tok, hist>>

\* the steps of the calls while r is free
DuelBegin(h) == Contended /\ AcquireBegin(h, AcquireInputs)
DuelLeaseRead(h) == Contended /\ LeaseRead(h)
DuelRetryBallot(h) == Contended /\ RetryBallot(h)
DuelPhase1Write(h) == Contended /\ Phase1Write(h)
DuelPhase1Read(h) == Contended /\ Phase1Read(h)
DuelPhase2Write(h) == Contended /\ Phase2Write(h)
DuelPhase2Read(h) == Contended /\ Phase2Read(h)
DuelWriteLeader(h) == Contended /\ WriteLeader(h)

NextDuel ==
  \/ \E h \in Hosts : DuelBegin(h)
  \/ \E h \in Hosts : DuelLeaseRead(h)
  \/ \E h \in Hosts : DuelRetryBallot(h)
  \/ \E h \in Hosts : DuelPhase1Write(h)
  \/ \E h \in Hosts : DuelPhase1Read(h)
  \/ \E h \in Hosts : DuelPhase2Write(h)
  \/ \E h \in Hosts : DuelPhase2Read(h)
  \/ \E h \in Hosts : DuelWriteLeader(h)
  \/ Rebase

\* fair scheduling: every call in progress keeps taking steps, the wake-up
\* from the random sleep before a retry included
FairDuel ==
  /\ WF_vars(Rebase)
  /\ \A h \in Hosts :
       /\ WF_vars(DuelLeaseRead(h))
       /\ WF_vars(DuelRetryBallot(h))
       /\ WF_vars(DuelPhase1Write(h))
       /\ WF_vars(DuelPhase1Read(h))
       /\ WF_vars(DuelPhase2Write(h))
       /\ WF_vars(DuelPhase2Read(h))
       /\ WF_vars(DuelWriteLeader(h))

\* live hosts contend for free r until the first ballot is committed
SpecDuel == Init /\ [][NextDuel]_vars /\ FairDuel

\* ---------------------------------- the owner's delta lease as it is found
MaxOwnerTime == 4       \* the clock of SpecOwner stops here

\* what the sector of the owner's host_id may hold when an acquirer reads it:
\* the owner's lease of generation 1 last renewed at time 1, the lease of its
\* next generation, that lease given back (LEASE_FREE), and a lease carrying
\* another owner_id
OwnerDeltas ==
  {DeltaLeader(FirstHost, 1, 1),
   DeltaLeader(FirstHost, 2, 1),
   [DeltaLeader(FirstHost, 2, 1) EXCEPT !.timestamp = LEASE_FREE],
   DeltaLeader(num_hosts + 1, 1, 1)}

\* the host_status entry an acquirer has of the owner's host_id: never
\* checked, or checked at time 2 and last seen to change at time 1 or 2
OwnerStatus(dl) ==
  {ZeroHs} \cup
  {[last_check |-> 2, last_live |-> l, timestamp |-> dl.timestamp,
    owner_id |-> dl.owner_id, owner_generation |-> dl.owner_generation,
    io_timeout |-> dl.io_timeout] : l \in {1, 2}}

\* the flags and acquire_lver of the acquire calls of SpecOwner
OwnerInputs ==
  [flags : {{}, {PAXOS_ACQUIRE_OWNER_NOWAIT}, {PAXOS_ACQUIRE_FORCE}},
   acquire_lver : 0 .. MaxLver]

\* FirstHost took r at lver 1 at time 1 and has not released it; at time 2 it
\* is still running (up), or it has stopped and its host_id sector holds one
\* of OwnerDeltas
InitOwner ==
  /\ now = 2
  /\ \E w \in Hosts, dl \in OwnerDeltas, up \in BOOLEAN :
       /\ up => dl = DeltaLeader(FirstHost, 1, 1)
       /\ leader = OwnedLeader(w)
       /\ dblocks = [q \in Hosts |-> OwnedDblock(q, w)]
       /\ delta = [q \in Hosts |->
                     IF q = FirstHost THEN dl ELSE DeltaLeader(q, 1, 2)]
       /\ alive = [h \in Hosts |-> h # FirstHost \/ up]
       /\ pc = [h \in Hosts |-> IF h # FirstHost \/ up THEN "idle" ELSE "dead"]
       /\ tok = [h \in Hosts |->
                   IF h = FirstHost /\ up
                     THEN [ZeroToken(1) EXCEPT !.held = TRUE,
                                               !.leader = OwnedLeader(w),
                                               !.before = init_leader(FALSE, 1)]
                     ELSE ZeroToken(1)]
       /\ \E hs \in OwnerStatus(dl) :
            hstatus = [h \in Hosts |-> [q \in Hosts |->
                         IF h # FirstHost /\ q = FirstHost THEN hs ELSE ZeroHs]]
  /\ acq = [h \in Hosts |-> ZeroAcq]
  /\ hist = [ballots |-> {BallotValue(OwnedDblock(FirstHost, FirstHost))},
             commits |-> {CommitValue(OwnedLeader(FirstHost))}]
  /\ mblocks = [q \in Hosts |-> {}]
  /\ MdOff /\ DmOff

NextOwner ==
  \/ \E h \in Hosts \ {FirstHost} : AcquireBegin(h, OwnerInputs)
  \/ Step
  \/ \E h \in Hosts : Renew(h)
  \/ Tick(MaxOwnerTime)

\* the other hosts call acquire for r, owned by FirstHost, with and without
\* PAXOS_ACQUIRE_OWNER_NOWAIT, PAXOS_ACQUIRE_FORCE and an expected lver
SpecOwner == InitOwner /\ [][NextOwner]_vars

\* ------------------------------------------ the leader as release finds it
\* what sector 0 may hold when FirstHost, whose token carries the leader it
\* wrote for lver 1, calls release: any leader the hosts may have written
\* since
ReleaseLeaders ==
  {[OwnedLeader(FirstHost) EXCEPT !.lver = lv, !.timestamp = t, !.owner_id = o,
                                  !.owner_generation = g, !.write_id = w,
                                  !.write_timestamp = wt] :
     lv \in 1 .. MaxLver, t \in {LEASE_FREE, 1}, o \in Hosts, g \in 1 .. 2,
     w \in Hosts, wt \in 1 .. 2}

\* FirstHost holds r through the leader of lver 1 that it wrote itself
InitRelease ==
  /\ now = 1
  /\ leader \in ReleaseLeaders
  /\ dblocks = [q \in Hosts |-> OwnedDblock(q, FirstHost)]
  /\ delta = [q \in Hosts |-> DeltaLeader(q, 1, 1)]
  /\ hstatus = [h \in Hosts |-> [q \in Hosts |-> ZeroHs]]
  /\ alive = [h \in Hosts |-> TRUE]
  /\ pc = [h \in Hosts |-> "idle"]
  /\ tok = [h \in Hosts |->
              IF h = FirstHost
                THEN [ZeroToken(1) EXCEPT !.held = TRUE,
                                          !.leader = OwnedLeader(FirstHost),
                                          !.before = init_leader(FALSE, 1)]
                ELSE ZeroToken(1)]
  /\ acq = [h \in Hosts |-> ZeroAcq]
  /\ hist = [ballots |-> {BallotValue(OwnedDblock(FirstHost, FirstHost))},
             commits |-> {CommitValue(OwnedLeader(FirstHost))}]
  /\ mblocks = [q \in Hosts |-> {}]
  /\ MdOff /\ DmOff

NextRelease ==
  \/ Release
  \/ \E h \in Hosts : Renew(h)
  \/ Tick(MaxTime)

\* FirstHost releases r, whatever the leader on disk has become
SpecRelease == InitRelease /\ [][NextRelease]_vars

\* ------------------ cmd_acquire_thread: the expected lver of each resource
SANLK_RES_LVER      == "SANLK_RES_LVER"
SANLK_RES_NUM_HOSTS == "SANLK_RES_NUM_HOSTS"
LverResources == <<"r1", "r2">>   \* the resources of one acquire command
NewNumHosts == 3                  \* a num_hosts that a request may ask for

\* struct sanlk_resource as received: flags, lver, data32
ResRequests ==
  [flags : SUBSET {SANLK_RES_LVER, SANLK_RES_NUM_HOSTS},
   lver : 0 .. MaxLver,
   data32 : {0, NewNumHosts}]

\* the token that cmd_acquire_thread fills in from a sanlk_resource
LverToken(name, res) ==
  [resource_name |-> name, acquire_lver |-> res.lver,
   acquire_data32 |-> res.data32, acquire_flags |-> res.flags]

\* a command for both resources has been received; the leader of each
\* resource on disk is free with some lver, and no other host asks for it
InitLver ==
  /\ \E req \in [1 .. Len(LverResources) -> ResRequests] :
       worker = [pc |-> "acquire", i |-> 1, acquire_lver |-> 0,
                 new_num_hosts |-> 0,
                 new_tokens |-> [i \in 1 .. Len(LverResources) |->
                                   LverToken(LverResources[i], req[i])],
                 new_tokens_count |-> Len(LverResources),
                 acquire_count |-> 0, rv |-> SANLK_OK]
  /\ disks \in [{LverResources[i] : i \in 1 .. Len(LverResources)} ->
                  [lver : 1 .. MaxLver, num_hosts : {num_hosts},
                   timestamp : {LEASE_FREE}]]
  /\ mpc = "off" /\ mtok = <<>>
  /\ client = <<>> /\ space = <<>> /\ supervisor = <<>>
  /\ sent = <<>>
  /\ CoreOff

\* the loop over new_tokens: acquire_lver and new_num_hosts are locals of the
\* thread, assigned only for a token that carries the flag
acquire_args(w, token) ==
  [acquire_lver |-> IF SANLK_RES_LVER \in token.acquire_flags
                      THEN token.acquire_lver ELSE w.acquire_lver,
   new_num_hosts |-> IF SANLK_RES_NUM_HOSTS \in token.acquire_flags
                       THEN token.acquire_data32 ELSE w.new_num_hosts]

\* acquire_token -> paxos_lease_acquire of a free lease that no other host
\* wants: the acquire_lver check, then the ballot and the new leader
acquire_token(l, acquire_lver, new_num_hosts) ==
  IF acquire_lver # 0 /\ l.lver # acquire_lver
    THEN [rv |-> SANLK_ACQUIRE_LVER, leader |-> l]
    ELSE [rv |-> SANLK_OK,
          leader |-> [lver |-> l.lver + 1,
                      num_hosts |-> IF new_num_hosts # 0 THEN new_num_hosts
                                    ELSE l.num_hosts,
                      timestamp |-> now]]

\* one pass of the loop
AcqTokenLver ==
  /\ worker.pc = "acquire" /\ worker.i <= worker.new_tokens_count
  /\ LET token == worker.new_tokens[worker.i]
         args == acquire_args(worker, token)
         r == acquire_token(disks[token.resource_name], args.acquire_lver,
                            args.new_num_hosts)
     IN /\ disks' = [disks EXCEPT ![token.resource_name] = r.leader]
        /\ sent' = Append(sent, [resource_name |-> token.resource_name,
                                 acquire_lver |-> args.acquire_lver,
                                 new_num_hosts |-> args.new_num_hosts,
                                 rv |-> r.rv])
        /\ worker' =
             [worker EXCEPT
                !.acquire_lver = args.acquire_lver,
                !.new_num_hosts = args.new_num_hosts,
                !.rv = r.rv,
                !.i = IF r.rv = SANLK_OK THEN @ + 1 ELSE @,
                !.acquire_count = IF r.rv = SANLK_OK THEN @ + 1 ELSE @,
                !.pc = IF r.rv # SANLK_OK THEN "fail_release"
                       ELSE IF worker.i = worker.new_tokens_count THEN "reply"
                       ELSE "acquire"]
  /\ UNCHANGED <<client, space, supervisor, mpc, mtok, corevars>>

\* the command ends: the reply, or the release of what was acquired
AcqLverEnd ==
  /\ worker.pc \in {"reply", "fail_release"}
  /\ worker' = [worker EXCEPT !.pc = "end"]
  /\ UNCHANGED <<client, space, supervisor, sent, mdvars, corevars>>

NextLver == AcqTokenLver \/ AcqLverEnd

\* one acquire command for two free resources
SpecLver == InitLver /\ [][NextLver]_vars

\* ------------------- the command threads of one client slot and its exit
\* main.c: one slot of the client table, the processes that connect into it
\* one after another, the resource commands for it, each run by a thread of
\* its own, and main_loop, which starts the commands and serves the POLLHUP
\* of the connection.  Commands arrive on the client's own connection or,
\* naming its pid in data2, on another connection.
MaxPids == 2         \* processes that connect one after another
MaxCmdTokens == 2    \* tokens that the acquire commands allocate

Threads == {1, 2}                   \* command threads that may run at once
SM_CMD_RELEASE == 2                 \* command codes other than 0
SM_CMD_INQUIRE == 3
CmdKinds == {SM_CMD_ACQUIRE, SM_CMD_RELEASE, SM_CMD_INQUIRE}
EPERM == 1
ENOENT == 2
EBUSY == 16

\* struct client after memset(0) and fd = -1; tokens[j] = 0: NULL;
\* polled: pollfd[ci].fd >= 0
ZeroSlot ==
  [used |-> FALSE, fd |-> -1, pid |-> 0, deadfn |-> "NULL", cmd_active |-> 0,
   acquire_done |-> FALSE, pid_dead |-> FALSE,
   tokens |-> [j \in 1 .. SANLK_MAX_RESOURCES |-> 0], polled |-> FALSE]

\* a command thread that does not run; epoch: the number of times the slot
\* had been cleared when the thread was created
ZeroThread ==
  [pc |-> "idle", cmd |-> 0, ci_target |-> 0, self |-> FALSE, epoch |-> 0,
   j |-> 0, token |-> 0, total |-> 0, pid_dead |-> FALSE]

\* the daemon has started: no connection, no thread; sent is the history:
\* released[k], freed[k]: calls of release_token(_async) and free_token on
\* token k; cleared: calls of client_dead; stale: the commands whose thread
\* used the slot after client_dead cleared it; rv: result of the last
\* process_cmd_thread_resource
InitCmd ==
  /\ client = [ci \in Clients |-> ZeroSlot]
  /\ worker = [t \in Threads |-> ZeroThread]
  /\ sent = [alive |-> FALSE, pids |-> 0, allocs |-> 0,
             released |-> [k \in 1 .. MaxCmdTokens |-> 0],
             freed |-> [k \in 1 .. MaxCmdTokens |-> 0],
             cleared |-> 0, stale |-> {}, rv |-> 0]
  /\ space = <<>> /\ supervisor = <<>>
  /\ CoreOff /\ MdOff

\* one more call counted, up to two
Bump(n) == IF n < 2 THEN n + 1 ELSE n

\* the counts cnt after one more call on each token of ts
Called(cnt, ts) == [k \in DOMAIN cnt |-> IF k \in ts THEN Bump(cnt[k]) ELSE cnt[k]]

\* the tokens that cl->tokens points to
SlotTokens(cl) == {cl.tokens[j] : j \in 1 .. SANLK_MAX_RESOURCES} \ {0}

\* the slot was cleared by client_dead since thread t was created
Stale(t) == worker[t].epoch # sent.cleared

\* the history after thread t has read or written its client slot
Touched(t) ==
  [sent EXCEPT !.stale = IF Stale(t) THEN @ \cup {worker[t].cmd} ELSE @]

\* set_cmd_active: under cl->mutex; cmd 0 clears, another cmd is stored
\* only over 0; -EBUSY for a cmd over a cmd
set_cmd_active(cl, cmd) ==
  [cl |-> IF cmd = 0 THEN [cl EXCEPT !.cmd_active = 0]
          ELSE IF cl.cmd_active = 0 THEN [cl EXCEPT !.cmd_active = cmd]
          ELSE cl,
   rv |-> IF cmd # 0 /\ cl.cmd_active # 0 THEN -EBUSY ELSE 0]

\* find_client_pid: the slot in use with this pid, or -1
find_client_pid(pid) ==
  IF \E ci \in Clients : client[ci].used /\ client[ci].pid = pid
    THEN CHOOSE ci \in Clients : client[ci].used /\ client[ci].pid = pid
    ELSE -1

\* client_dead on a slot: close, memset, fd = -1
client_dead_slot(cls, ci) == [cls EXCEPT ![ci] = ZeroSlot]

\* client_back(ci_in) when the command came on the client's own connection
client_back_slot(cls, ci, self) ==
  IF self THEN [cls EXCEPT ![ci].polled = TRUE] ELSE cls

\* the first step of the thread of a command
FirstPc(cmd) ==
  IF cmd = SM_CMD_ACQUIRE THEN "acq_tokens"
  ELSE IF cmd = SM_CMD_RELEASE THEN "rel_load"
  ELSE "inq_count"

\* the idle thread that pthread_create starts
IdleThread ==
  CHOOSE t \in Threads :
    /\ worker[t].pc = "idle"
    /\ \A u \in Threads : worker[u].pc = "idle" => t <= u

\* process_cmd_thread_resource: ci_target, the registration test,
\* set_cmd_active; rv and the client table after it
process_cmd_thread_resource(ci_in, cmd, data2) ==
  LET ci_target == IF data2 # -1 THEN find_client_pid(data2) ELSE ci_in
  IN IF ci_target < 0
       THEN [rv |-> -ENOENT, ci_target |-> ci_target, client |-> client]
     ELSE IF client[ci_target].pid <= 0
       THEN [rv |-> -EPERM, ci_target |-> ci_target, client |-> client]
     ELSE LET r == set_cmd_active(client[ci_target], cmd)
          IN [rv |-> r.rv, ci_target |-> ci_target,
              client |-> [client EXCEPT ![ci_target] = r.cl]]

\* main_loop, process_connection: a resource command is received, on the
\* client's own connection ci (data2 = -1; client_ignore, and client_back
\* when it is refused) or on another connection, with the pid in data2
ProcessCmd(ci, cmd, self, data2) ==
  /\ \E t \in Threads : worker[t].pc = "idle"
  /\ IF self
       THEN data2 = -1 /\ client[ci].used /\ client[ci].polled /\ sent.alive
       ELSE data2 >= 1 /\ data2 <= sent.pids
  /\ LET r == process_cmd_thread_resource(ci, cmd, data2)
         t == IdleThread
     IN /\ sent' = [sent EXCEPT !.rv = r.rv]
        /\ IF r.rv < 0
             THEN UNCHANGED <<client, worker>>
             ELSE /\ client' = IF self
                                 THEN [r.client EXCEPT ![ci].polled = FALSE]
                                 ELSE r.client
                  /\ worker' = [worker EXCEPT ![t] =
                                  [ZeroThread EXCEPT !.pc = FirstPc(cmd),
                                                     !.cmd = cmd,
                                                     !.ci_target = r.ci_target,
                                                     !.self = self,
                                                     !.epoch = sent.cleared,
                                                     !.j = 1]]
  /\ UNCHANGED <<space, supervisor, mdvars, corevars>>

\* the position after entry j of cl->tokens: the next entry or the reply
NextEntry(w, loop, reply) ==
  IF w.j = SANLK_MAX_RESOURCES
    THEN [w EXCEPT !.pc = reply]
    ELSE [w EXCEPT !.pc = loop, !.j = @ + 1]

\* ---- cmd_release_thread with SANLK_REL_ALL
\* token = cl->tokens[j], without cl->mutex
RelLoad(t) ==
  /\ worker[t].pc = "rel_load"
  /\ LET w == worker[t]
         token == client[w.ci_target].tokens[w.j]
     IN worker' = [worker EXCEPT ![t] =
                     IF token = 0 THEN NextEntry(w, "rel_load", "rel_reply")
                     ELSE [w EXCEPT !.pc = "rel_release", !.token = token]]
  /\ sent' = Touched(t)
  /\ UNCHANGED <<client, space, supervisor, mdvars, corevars>>

\* release_token(token); free_token(token)
RelToken(t) ==
  /\ worker[t].pc = "rel_release"
  /\ sent' = [sent EXCEPT !.released = Called(@, {worker[t].token}),
                          !.freed = Called(@, {worker[t].token})]
  /\ worker' = [worker EXCEPT ![t].pc = "rel_clear"]
  /\ UNCHANGED <<client, space, supervisor, mdvars, corevars>>

\* cl->tokens[j] = NULL, without cl->mutex
RelClear(t) ==
  /\ worker[t].pc = "rel_clear"
  /\ LET w == worker[t]
     IN /\ client' = [client EXCEPT ![w.ci_target].tokens[w.j] = 0]
        /\ worker' = [worker EXCEPT ![t] =
                        NextEntry([w EXCEPT !.token = 0], "rel_load", "rel_reply")]
  /\ sent' = Touched(t)
  /\ UNCHANGED <<space, supervisor, mdvars, corevars>>

\* reply: set_cmd_active(ci_target, 0), send, client_back; the end of
\* cmd_release_thread and of cmd_inquire_thread
CmdReply(t, at) ==
  /\ worker[t].pc = at
  /\ LET w == worker[t]
         r == set_cmd_active(client[w.ci_target], 0)
     IN client' = client_back_slot([client EXCEPT ![w.ci_target] = r.cl],
                                   w.ci_target, w.self)
  /\ sent' = Touched(t)
  /\ worker' = [worker EXCEPT ![t] = ZeroThread]
  /\ UNCHANGED <<space, supervisor, mdvars, corevars>>

RelReply(t) == CmdReply(t, "rel_reply")

\* ---- cmd_inquire_thread
\* the first loop: total, the number of tokens
InqCount(t) ==
  /\ worker[t].pc = "inq_count"
  /\ LET w == worker[t]
         total == Cardinality({j \in 1 .. SANLK_MAX_RESOURCES :
                                 client[w.ci_target].tokens[j] # 0})
     IN worker' = [worker EXCEPT ![t] =
                     [w EXCEPT !.pc = "inq_read", !.total = total, !.j = 1]]
  /\ sent' = Touched(t)
  /\ UNCHANGED <<client, space, supervisor, mdvars, corevars>>

\* the second loop: token = cl->tokens[i], and the names, disks and lver of
\* the token are printed
InqToken(t) ==
  /\ worker[t].pc = "inq_read"
  /\ LET w == worker[t]
         token == client[w.ci_target].tokens[w.j]
     IN worker' = [worker EXCEPT ![t] =
                     NextEntry([w EXCEPT !.token = token], "inq_read", "inq_reply")]
  /\ sent' = Touched(t)
  /\ UNCHANGED <<client, space, supervisor, mdvars, corevars>>

InqReply(t) == CmdReply(t, "inq_reply")

\* ---- cmd_acquire_thread for one resource
\* the token is allocated and its lease acquired, or a step before the
\* commit fails and its token is freed again
ThrTokens(t) ==
  /\ worker[t].pc = "acq_tokens"
  /\ \E ok \in BOOLEAN :
       IF ok /\ sent.allocs < MaxCmdTokens
         THEN /\ sent' = [sent EXCEPT !.allocs = @ + 1]
              /\ worker' = [worker EXCEPT ![t].pc = "acq_commit",
                                          ![t].token = sent.allocs + 1]
         ELSE /\ sent' = sent
              /\ worker' = [worker EXCEPT ![t].pc = "acq_fail"]
  /\ UNCHANGED <<client, space, supervisor, mdvars, corevars>>

\* the commit under cl->mutex: fail_dead when cl->pid_dead, fail_release
\* without an empty entry or without the lockspace; else the token is
\* stored, acquire_done = 1, cmd_active = 0
ThrCommit(t) ==
  /\ worker[t].pc = "acq_commit"
  /\ \E space_ok \in BOOLEAN :
       LET w == worker[t]
           cl == client[w.ci_target]
           empty == {j \in 1 .. SANLK_MAX_RESOURCES : cl.tokens[j] = 0}
           slot == CHOOSE j \in empty : \A k \in empty : j <= k
       IN IF cl.pid_dead
            THEN /\ sent' = [Touched(t) EXCEPT
                               !.released = Called(@, SlotTokens(cl) \cup {w.token}),
                               !.freed = Called(@, SlotTokens(cl) \cup {w.token})]
                 /\ worker' = [worker EXCEPT ![t].pc = "acq_fail",
                                             ![t].pid_dead = TRUE]
                 /\ client' = client
          ELSE IF empty = {} \/ ~space_ok
            THEN /\ sent' = [Touched(t) EXCEPT
                               !.released = Called(@, {w.token}),
                               !.freed = Called(@, {w.token})]
                 /\ worker' = [worker EXCEPT ![t].pc = "acq_fail"]
                 /\ client' = client
          ELSE /\ sent' = Touched(t)
               /\ worker' = [worker EXCEPT ![t].pc = "acq_reply"]
               /\ client' = [client EXCEPT ![w.ci_target].tokens[slot] = w.token,
                                           ![w.ci_target].acquire_done = TRUE,
                                           ![w.ci_target].cmd_active = 0]
  /\ UNCHANGED <<space, supervisor, mdvars, corevars>>

\* the reply after success: send, client_back
ThrReply(t) ==
  /\ worker[t].pc = "acq_reply"
  /\ client' = client_back_slot(client, worker[t].ci_target, worker[t].self)
  /\ worker' = [worker EXCEPT ![t] = ZeroThread]
  /\ UNCHANGED <<space, supervisor, sent, mdvars, corevars>>

\* fail_reply: set_cmd_active(0), the reply, client_dead if this thread
\* found the pid dead, client_back
ThrFail(t) ==
  /\ worker[t].pc = "acq_fail"
  /\ LET w == worker[t]
         r == set_cmd_active(client[w.ci_target], 0)
         cls == [client EXCEPT ![w.ci_target] = r.cl]
     IN /\ client' = client_back_slot(IF w.pid_dead
                                        THEN client_dead_slot(cls, w.ci_target)
                                        ELSE cls,
                                      w.ci_target, w.self)
        /\ sent' = [Touched(t) EXCEPT
                      !.cleared = IF w.pid_dead THEN @ + 1 ELSE @]
  /\ worker' = [worker EXCEPT ![t] = ZeroThread]
  /\ UNCHANGED <<space, supervisor, mdvars, corevars>>

\* ---- main_loop
\* process_listener, client_add: a process connects and gets the first
\* slot not in use; the other fields of the slot stay as they are
ClientAdd(ci) ==
  /\ ~client[ci].used
  /\ ~sent.alive
  /\ sent.pids < MaxPids
  /\ client' = [client EXCEPT ![ci].used = TRUE, ![ci].deadfn = "client_dead",
                              ![ci].fd = ci, ![ci].polled = TRUE]
  /\ sent' = [sent EXCEPT !.alive = TRUE, !.pids = @ + 1]
  /\ UNCHANGED <<space, worker, supervisor, mdvars, corevars>>

\* process_cmd_daemon, SM_CMD_REGISTER: pid of the peer, deadfn
CmdRegister(ci) ==
  /\ client[ci].used /\ client[ci].polled /\ sent.alive
  /\ client[ci].deadfn = "client_dead"
  /\ client' = [client EXCEPT ![ci].pid = sent.pids,
                              ![ci].deadfn = "client_pid_dead"]
  /\ UNCHANGED <<space, worker, supervisor, sent, mdvars, corevars>>

\* the process behind the slot exits: its end of the connection is closed
PidExits(ci) ==
  /\ client[ci].used /\ sent.alive
  /\ sent' = [sent EXCEPT !.alive = FALSE]
  /\ UNCHANGED <<client, space, worker, supervisor, mdvars, corevars>>

\* client_pid_dead on a slot: pid = -1, pid_dead = 1; the tokens are
\* released and the slot cleared unless a first acquire is in progress
client_pid_dead_slot(ci) ==
  LET cl == client[ci]
      delay_release == cl.cmd_active = SM_CMD_ACQUIRE /\ ~cl.acquire_done
  IN IF delay_release
       THEN [client |-> [client EXCEPT ![ci].pid = -1, ![ci].pid_dead = TRUE],
             released |-> {}, cleared |-> 0]
       ELSE [client |-> client_dead_slot(client, ci),
             released |-> SlotTokens(cl), cleared |-> 1]

\* main_loop: POLLHUP on the connection of the slot, deadfn is called
MainHup(ci) ==
  /\ client[ci].used /\ client[ci].polled
  /\ ~sent.alive
  /\ LET r == IF client[ci].deadfn = "client_pid_dead"
                THEN client_pid_dead_slot(ci)
                ELSE [client |-> client_dead_slot(client, ci),
                      released |-> {}, cleared |-> 1]
     IN /\ client' = r.client
        /\ sent' = [sent EXCEPT !.released = Called(@, r.released),
                                !.cleared = @ + r.cleared]
  /\ UNCHANGED <<space, worker, supervisor, mdvars, corevars>>

CmdThread(t) ==
  \/ RelLoad(t)
  \/ RelToken(t)
  \/ RelClear(t)
  \/ RelReply(t)
  \/ InqCount(t)
  \/ InqToken(t)
  \/ InqReply(t)
  \/ ThrTokens(t)
  \/ ThrCommit(t)
  \/ ThrReply(t)
  \/ ThrFail(t)

NextCmd ==
  \/ \E ci \in Clients : ClientAdd(ci)
  \/ \E ci \in Clients : CmdRegister(ci)
  \/ \E ci \in Clients, cmd \in CmdKinds, self \in BOOLEAN,
        data2 \in {-1} \cup (1 .. MaxPids) : ProcessCmd(ci, cmd, self, data2)
  \/ \E t \in Threads : CmdThread(t)
  \/ \E ci \in Clients : PidExits(ci)
  \/ \E ci \in Clients : MainHup(ci)

\* the daemon serving the resource commands of one slot while pids exit
SpecCmd == InitCmd /\ [][NextCmd]_vars

\* ================================================================ claims
\* the running hosts to which acquire returned SANLK_OK for r and that have
\* not called release since
Holders == {h \in Hosts : alive[h] /\ tok[h].held}

\* C1, mutual exclusion: at every moment at most one running host holds r,
\* that is, no two hosts with live delta leases have both had
\* paxos_lease_acquire return SANLK_OK for r without a release in between.
C1_MutualExclusion == Cardinality(Holders) <= 1

\* C2, ballot agreement: all ballots of one lver that succeed return the same
\* (inp, inp2, inp3), and all leaders written by acquire for one lver carry the
\* same owner_id, owner_generation and timestamp, whichever host wrote them.
C2_BallotAgreement ==
  /\ \A b1, b2 \in hist.ballots : b1.lver = b2.lver => b1 = b2
  /\ \A c1, c2 \in hist.commits : c1.lver = c2.lver => c1 = c2

\* the owner named by the leader that host h read still owns its delta lease
\* and has not released r
OwnerUnreleased(h) ==
  LET cur == acq[h].cur_leader
      o == cur.owner_id
  IN /\ cur.timestamp # LEASE_FREE /\ o # h /\ leader = cur
     /\ delta[o].timestamp # LEASE_FREE /\ delta[o].owner_id = o
     /\ delta[o].owner_generation = cur.owner_generation
     /\ DBLOCK_FL_RELEASED \notin dblocks[o].flags

\* C3, fencing: while the owner of r has not released it, another host leaves
\* the owner wait loop for a ballot no earlier than T + host_dead_seconds,
\* where T is the owner's last renewal and host_dead_seconds is computed from
\* the io_timeout the owner advertises; whatever host_status entry the
\* acquirer has of the owner.
C3_Fencing ==
  [][\A h \in Hosts :
       (pc[h] = "delta_read" /\ pc'[h] = "retry_ballot" /\ OwnerUnreleased(h))
       => LET o == acq[h].cur_leader.owner_id IN
            now >= delta[o].timestamp + calc_host_dead_seconds(delta[o].io_timeout)]_vars

\* C4, lver monotonicity: every leader written by acquire after a successful
\* ballot has lver = cur_leader.lver + 1, and successive commits do not lower
\* the lver on disk (the claim asks for a strict increase; already the weaker
\* form stated here fails).
C4_LverMonotonic ==
  [][\A h \in Hosts :
       (pc[h] = "write_leader" /\ pc'[h] = "done")
       => /\ leader'.lver = acq[h].cur_leader.lver + 1
          /\ leader'.lver >= leader.lver]_vars

\* host h's release call returns success in this step
ReleaseOk(h) ==
  /\ pc[h] \in {"rel_read", "rel_write"} /\ pc'[h] = "rel_done"
  /\ acq'[h].result = SANLK_OK

\* after the step the leader on disk is free, at the lver host h acquired,
\* without LFL_SHORT_HOLD
Freed(h) ==
  /\ leader'.timestamp = LEASE_FREE
  /\ leader'.lver = tok[h].leader.lver
  /\ LFL_SHORT_HOLD \notin leader'.flags

\* C5 as claimed, release safety: when release by the owner returns success,
\* the leader on disk has timestamp LEASE_FREE, the lver of before the release
\* and LFL_SHORT_HOLD cleared.
C5_ReleaseFrees == [][\A h \in Hosts : ReleaseOk(h) => Freed(h)]_vars

\* C5 amended: when release by the owner returns success and the leader it
\* read was written by the caller, the leader it wrote has timestamp
\* LEASE_FREE, the lver of before the release and LFL_SHORT_HOLD cleared; when
\* the leader was written by another host, release returns success without
\* writing and the leader stays as it is.
C5_ReleaseFreesOwnWrite ==
  [][\A h \in Hosts : ReleaseOk(h) =>
       IF pc[h] = "rel_read" THEN leader.write_id # h /\ leader' = leader
       ELSE Freed(h) /\ leader'.write_id = h
            /\ acq[h].cur_leader.write_id = h]_vars

\* a shared holder released: the leader on disk is the one its release wrote
C5_Witness ==
  \E h \in Hosts :
    /\ pc[h] = "rel_done" /\ acq[h].result = SANLK_OK
    /\ leader = acq[h].leader_ret /\ leader.timestamp = LEASE_FREE
    /\ LFL_SHORT_HOLD \in tok[h].leader.flags /\ LFL_SHORT_HOLD \notin leader.flags
    /\ leader.lver = tok[h].leader.lver /\ leader.lver > 0

\* host h, waiting for the owner of r, sees the timestamp of the owner's delta
\* lease ahead of the one it saw before
ObservedAdvance(h) ==
  LET cur == acq[h].cur_leader
      dl == delta[cur.owner_id]
  IN /\ pc[h] \in {"delta_read", "owner_dblock"}
     /\ PAXOS_ACQUIRE_FORCE \notin acq[h].flags
     /\ cur.timestamp # LEASE_FREE /\ cur.owner_id # h
     /\ dl.timestamp # LEASE_FREE /\ dl.owner_id = cur.owner_id
     /\ dl.owner_generation = cur.owner_generation
     /\ acq[h].last_timestamp # 0 /\ dl.timestamp > acq[h].last_timestamp

\* host h's acquire returns SANLK_ACQUIRE_IDLIVE in this step, having run no
\* ballot since its lease read
Idlive(h) ==
  /\ pc'[h] = "done" /\ acq'[h].result = SANLK_ACQUIRE_IDLIVE
  /\ acq'[h].ballots = 0

\* C6 as claimed, a live owner is never displaced: once the owner's delta
\* timestamp is seen to advance, acquire writes nothing and returns
\* SANLK_ACQUIRE_IDLIVE without a ballot (reading the owner's dblock first
\* when the leader was written by another host).
C6_LiveOwnerKept ==
  [][\A h \in Hosts : (ObservedAdvance(h) /\ pc'[h] # pc[h]) =>
       /\ leader' = leader /\ dblocks' = dblocks
       /\ pc'[h] = "owner_dblock" \/ Idlive(h)]_vars

\* C6 amended: once the owner's delta timestamp is seen to advance, acquire
\* writes nothing and returns SANLK_ACQUIRE_IDLIVE without a ballot, except
\* when the leader was written by a host other than the owner and the owner's
\* dblock carries DBLOCK_FL_RELEASED: then it goes on to a ballot.
C6_LiveOwnerKeptUnlessReleased ==
  [][\A h \in Hosts : (ObservedAdvance(h) /\ pc'[h] # pc[h]) =>
       LET cur == acq[h].cur_leader
           released == DBLOCK_FL_RELEASED \in dblocks[cur.owner_id].flags
       IN /\ leader' = leader /\ dblocks' = dblocks
          /\ IF cur.write_id = cur.owner_id THEN Idlive(h)
             ELSE IF pc[h] = "delta_read" THEN pc'[h] = "owner_dblock"
             ELSE IF released THEN pc'[h] = "retry_ballot"
             ELSE Idlive(h)]_vars

\* an acquire returned SANLK_ACQUIRE_IDLIVE after seeing the owner renew
C6_Witness ==
  \E h \in Hosts :
    LET cur == acq[h].cur_leader IN
    /\ pc[h] = "done" /\ acq[h].result = SANLK_ACQUIRE_IDLIVE /\ acq[h].ballots = 0
    /\ acq[h].last_timestamp # 0 /\ cur.owner_id # h
    /\ delta[cur.owner_id].timestamp > acq[h].last_timestamp
    /\ leader = cur /\ acq[h].leader_ret = cur

\* the owner's delta lease has been silent for more than the host_dead_seconds
\* of the io_timeout it advertises
OwnerSilent ==
  now - delta[FirstHost].timestamp >
    calc_host_dead_seconds(delta[FirstHost].io_timeout)

\* another host holds r through a leader of the next lver that names it
Reclaimed ==
  \E h \in Hosts \ {FirstHost} :
    /\ tok[h].held
    /\ tok[h].leader.lver = OwnedLeader(FirstHost).lver + 1
    /\ tok[h].leader.owner_id = h
    /\ tok[h].leader.owner_generation = tok[h].host_generation

\* C7 as claimed, reclaim after owner death: an acquire of another host that
\* ends while the owner has been silent for more than host_dead_seconds ends
\* with SANLK_OK.
C7_ReclaimEveryCall ==
  [][\A h \in Hosts :
       (/\ pc[h] # "done" /\ pc'[h] = "done" /\ OwnerSilent
        /\ acq'[h].cur_leader.owner_id = FirstHost
        /\ acq'[h].cur_leader.timestamp # LEASE_FREE)
       => acq'[h].result = SANLK_OK]_vars

\* C7 amended: after the owner stopped renewing, a host that keeps calling
\* acquire, with no other contender, eventually holds r through a leader with
\* lver = previous lver + 1 that names it (host_id, host_generation) as owner;
\* single calls may still return SANLK_ACQUIRE_IDLIVE on the way.
C7_ReclaimEventually == (~alive[FirstHost]) ~> Reclaimed

\* an acquire returns SANLK_OK for a ballot it ran after the owner had been
\* silent for more than host_dead_seconds
C7_Witness ==
  \E h \in Hosts \ {FirstHost} :
    /\ pc[h] = "done" /\ acq[h].result = SANLK_OK
    /\ acq[h].leader_ret.lver = OwnedLeader(FirstHost).lver + 1
    /\ acq[h].leader_ret.owner_id = h
    /\ acq[h].leader_ret.timestamp >
         delta[FirstHost].timestamp + calc_host_dead_seconds(delta[FirstHost].io_timeout)

\* the acquire calls of h1 and h2 both read r free at the same lver and both
\* have their result
DonePair(h1, h2) ==
  /\ h1 # h2 /\ pc[h1] = "done" /\ pc[h2] = "done"
  /\ acq[h1].cur_leader.timestamp = LEASE_FREE
  /\ acq[h2].cur_leader.timestamp = LEASE_FREE
  /\ acq[h1].cur_leader.lver = acq[h2].cur_leader.lver

\* C8 as claimed, concurrent ballot: of two concurrent acquires of a free r
\* the one that returns SANLK_OK ran the higher mbal and the other one returns
\* SANLK_ACQUIRE_OWNED.
C8_HigherMbalWins ==
  \A h1, h2 \in Hosts : (DonePair(h1, h2) /\ acq[h1].result = SANLK_OK) =>
    /\ acq[h2].result = SANLK_ACQUIRE_OWNED
    /\ acq[h1].dblock.mbal > acq[h2].dblock.mbal

\* C8 amended: of two concurrent acquires of a free r exactly one returns
\* SANLK_OK, whichever mbal it ran; the other one returns SANLK_ACQUIRE_OWNED
\* (its ballot was aborted and the retry, with a larger mbal, found the new
\* owner) or SANLK_ACQUIRE_OTHER (its own ballot committed the winner's inp).
C8_ExactlyOneWins ==
  \A h1, h2 \in Hosts : DonePair(h1, h2) =>
    /\ acq[h1].result = SANLK_OK \/ acq[h2].result = SANLK_OK
    /\ ~(acq[h1].result = SANLK_OK /\ acq[h2].result = SANLK_OK)
    /\ acq[h1].result \in {SANLK_OK, SANLK_ACQUIRE_OWNED, SANLK_ACQUIRE_OTHER}
    /\ acq[h1].result = SANLK_ACQUIRE_OWNED =>
         /\ acq[h1].our_mbal > acq[h1].dblock.mbal
         /\ acq[h1].leader_ret.owner_id = h2
    /\ acq[h1].result = SANLK_ACQUIRE_OTHER =>
         /\ acq[h1].leader_ret.owner_id = h2
         /\ acq[h1].leader_ret.write_id = h1

\* the winner ran the lower mbal; the other host committed the winner's inp
C8_Witness ==
  \E h1, h2 \in Hosts :
    /\ DonePair(h1, h2) /\ acq[h1].result = SANLK_OK
    /\ acq[h2].result = SANLK_ACQUIRE_OTHER
    /\ acq[h1].dblock.mbal < acq[h2].dblock.mbal

\* C9, acquire outcome: an acquire that wrote the new leader returns SANLK_OK
\* when that leader names the caller as owner and SANLK_ACQUIRE_OTHER when it
\* names another host; SANLK_OK never comes with a leader naming another host.
C9_AcquireOutcome ==
  \A h \in Hosts : pc[h] = "done" =>
    /\ acq[h].result = SANLK_OK => acq[h].leader_ret.owner_id = h
    /\ acq[h].result = SANLK_ACQUIRE_OTHER =>
         /\ acq[h].leader_ret.owner_id # h
         /\ acq[h].leader_ret.write_id = h
    /\ acq[h].leader_ret.write_id = h /\ acq[h].leader_ret.lver = acq[h].next_lver
         => acq[h].result \in {SANLK_OK, SANLK_ACQUIRE_OTHER}

\* two hosts finished the same ballot: the owner got SANLK_OK, the host that
\* wrote the owner in got SANLK_ACQUIRE_OTHER
C9_Witness ==
  \E h1, h2 \in Hosts :
    /\ pc[h1] = "done" /\ acq[h1].result = SANLK_OK
    /\ acq[h1].leader_ret.owner_id = h1 /\ acq[h1].leader_ret.write_id = h1
    /\ pc[h2] = "done" /\ acq[h2].result = SANLK_ACQUIRE_OTHER
    /\ acq[h2].leader_ret.owner_id = h1 /\ leader = acq[h2].leader_ret

\* the leader host h's acquire read names h, in its current generation, as owner
AlreadyLocal(h) ==
  LET cur == acq[h].cur_leader IN
  /\ cur.timestamp # LEASE_FREE /\ cur.owner_id = h
  /\ cur.owner_generation = tok[h].host_generation

\* C10 as claimed, idempotent acquire: an acquire of a lease whose leader
\* already names the caller returns SANLK_OK having written no dblock and no
\* leader, the leader (lver included) being the one it read.
C10_ReadOnlySuccess ==
  \A h \in Hosts :
    (pc[h] = "done" /\ acq[h].result = SANLK_OK /\ AlreadyLocal(h)) =>
      /\ acq[h].ballots = 0
      /\ acq[h].leader_ret = acq[h].cur_leader

\* C10 amended: an acquire of a lease whose leader already names the caller
\* does not wait for the owner; it runs a new ballot, and when it returns
\* SANLK_OK the leader is one of lver = previous lver + 1 naming the caller.
C10_AlreadyLocalRunsBallot ==
  \A h \in Hosts :
    /\ pc[h] \in {"delta_read", "owner_dblock", "sleep"} => ~AlreadyLocal(h)
    /\ (pc[h] = "done" /\ acq[h].result = SANLK_OK /\ AlreadyLocal(h)) =>
         /\ acq[h].ballots >= 1
         /\ acq[h].leader_ret.lver = acq[h].cur_leader.lver + 1
         /\ acq[h].leader_ret.owner_id = h

\* a host whose release left the leader naming it acquired again: it ran a
\* ballot and wrote the leader of the next lver
C10_Witness ==
  \E h \in Hosts :
    /\ pc[h] = "done" /\ acq[h].result = SANLK_OK /\ AlreadyLocal(h)
    /\ acq[h].leader_ret.lver = acq[h].cur_leader.lver + 1
    /\ acq[h].leader_ret.write_id = h /\ leader = acq[h].leader_ret

\* host h's release call writes the leader in this step, having taken r by an
\* acquire that read a free leader
RoundTrip(h) ==
  /\ pc[h] = "rel_write" /\ pc'[h] = "rel_done"
  /\ tok[h].before.timestamp = LEASE_FREE

\* C11 as claimed, acquire/release round trip: from a free leader, an
\* uncontended acquire followed by release by the same host leaves every
\* leader field at its initial value, except write_timestamp.
C11_RoundTripNoOp ==
  [][\A h \in Hosts : RoundTrip(h) =>
       leader' = [tok[h].before EXCEPT !.write_timestamp = leader'.write_timestamp]]_vars

\* C11 amended: from a free leader, an uncontended acquire followed by release
\* by the same host leaves the leader free again but not as it was: lver is
\* one more, owner_id and owner_generation name the host, and write_id,
\* write_generation and write_timestamp are those of the release; only
\* timestamp (LEASE_FREE) and the flags are as before.
C11_RoundTripNextLver ==
  [][\A h \in Hosts : RoundTrip(h) =>
       leader' = [tok[h].before EXCEPT
                    !.lver = @ + 1, !.owner_id = h,
                    !.owner_generation = tok[h].host_generation,
                    !.timestamp = LEASE_FREE, !.write_id = h,
                    !.write_generation = tok[h].host_generation,
                    !.write_timestamp = now,
                    !.flags = @ \ {LFL_SHORT_HOLD}]]_vars

\* a host took the free r and released it: the leader is free at the next lver
C11_Witness ==
  \E h \in Hosts :
    /\ pc[h] = "rel_done" /\ acq[h].result = SANLK_OK
    /\ leader = acq[h].leader_ret
    /\ tok[h].before.timestamp = LEASE_FREE
    /\ tok[h].before.magic = PAXOS_DISK_MAGIC
    /\ leader.timestamp = LEASE_FREE
    /\ leader.lver = tok[h].before.lver + 1
    /\ leader.owner_id = h /\ tok[h].before.owner_id # h

\* C12, init law: paxos_lease_init leaves a leader with timestamp LEASE_FREE,
\* lver 0 and zero owner fields, and every dblock zero, so that the max_mbal
\* a lease read computes is 0; whatever the lease area held before.
C12_InitLaw ==
  [][(\E write_clear \in BOOLEAN : PaxosLeaseInit(write_clear)) =>
       /\ leader'.timestamp = LEASE_FREE /\ leader'.lver = 0
       /\ leader'.owner_id = 0 /\ leader'.owner_generation = 0
       /\ \A q \in Hosts : dblocks'[q] = ZeroDblock
       /\ lease_read_max_mbal(dblocks', 1, 0) = 0]_vars

\* the first acquire after paxos_lease_init read the free leader of lver 0 and
\* max_mbal 0, and starts its ballot with its own host_id as mbal
C12_Witness ==
  \E h \in Hosts :
    /\ pc[h] = "p1_write"
    /\ leader = init_leader(FALSE, 1) /\ acq[h].cur_leader = leader
    /\ \A q \in Hosts : dblocks[q] = ZeroDblock
    /\ acq[h].max_mbal = 0 /\ acq[h].our_mbal = h /\ acq[h].next_lver = 1

\* C14, writer-not-owner release: when the leader read by release was written
\* by another host, release returns 0 without writing: leader and dblocks on
\* disk stay as they are, and the release shows only as DBLOCK_FL_RELEASED in
\* the caller's dblock.
C14_WriterNotOwnerRelease ==
  [][\A h \in Hosts :
       (pc[h] = "rel_read" /\ pc'[h] # pc[h] /\ leader.write_id # h) =>
         /\ pc'[h] = "rel_done" /\ acq'[h].result = SANLK_OK
         /\ leader' = leader /\ dblocks' = dblocks
         /\ DBLOCK_FL_RELEASED \in dblocks'[h].flags]_vars

\* a host released r while the leader naming it was written by another host
C14_Witness ==
  \E h \in Hosts :
    /\ pc[h] = "rel_done" /\ acq[h].result = SANLK_OK
    /\ leader.owner_id = h /\ leader.write_id # h
    /\ leader.timestamp # LEASE_FREE /\ leader = tok[h].leader
    /\ DBLOCK_FL_RELEASED \in dblocks[h].flags


\* the hosts other than h that are alive and whose mode block carried
\* MBLOCK_SHARED when h read it in phase 1 of its ballot
LiveShared(h) == {q \in acq[h].shared \ {h} : alive[q]}

MdUnreachable == Disks \ Reachable

\* C15 as claimed, majority tolerance: with at most one of the three disks
\* unreachable - the first, the middle or the last of the token's disks - the
\* lease read, the ballot, the leader write of paxos_lease_acquire and
\* paxos_lease_release all succeed.
C15_MajorityTolerance ==
  [][(Cardinality(MdUnreachable) <= 1 /\ mtok'.result # mtok.result)
       => mtok'.result \in {NONE, SANLK_OK}]_vars

\* C16 as claimed, loss of majority: with fewer than a majority of the disks
\* reachable no acquire or release succeeds, no new owner is committed, and
\* the call fails with SANLK_DBLOCK_WRITE or SANLK_LEADER_WRITE.
C16_LossOfMajority ==
  [][(~majority_disks(NumDisks, Cardinality(Reachable)) /\ mtok'.result # mtok.result
        /\ mtok'.result # NONE)
       => mtok'.result \in {SANLK_DBLOCK_WRITE, SANLK_LEADER_WRITE}]_vars

\* the disks on which the leader names FirstHost as owner at lver
OwnerOn(lver) ==
  {d \in Disks : /\ disks[d].leader.lver = lver
                  /\ disks[d].leader.owner_id = FirstHost
                  /\ disks[d].leader.timestamp # LEASE_FREE}

\* C16 amended: with fewer than a majority of the disks reachable, every step
\* of paxos_lease_acquire and paxos_lease_release that does disk i/o fails, no
\* leader naming a new owner reaches a majority of the disks;
\* the error is SANLK_LEADER_DIFF or SANLK_DBLOCK_READ from the lease read,
\* SANLK_DBLOCK_WRITE or SANLK_DBLOCK_READ from the ballot, SANLK_LEADER_READ
\* from the leader read of release, and SANLK_AIO_TIMEOUT, the i/o error of
\* the last disk or SANLK_LEADER_WRITE from the leader write.
C16_LossOfMajorityErrors ==
  [][~majority_disks(NumDisks, Cardinality(Reachable)) =>
       /\ mpc = "lease_read" /\ mpc' # mpc
            => mpc' = "done" /\ mtok'.result \in {SANLK_LEADER_DIFF, SANLK_DBLOCK_READ}
       /\ mpc \in {"p1_write", "p2_write"} /\ mpc' # mpc
            => mpc' = "done" /\ mtok'.result = SANLK_DBLOCK_WRITE
       /\ mpc \in {"p1_read", "p2_read"} /\ mpc' # mpc
            => mpc' = "done" /\ mtok'.result = SANLK_DBLOCK_READ
       /\ mpc = "rel_read" /\ mpc' # mpc
            => mpc' = "rel_done" /\ mtok'.result = SANLK_LEADER_READ
       /\ mpc \in {"write_leader", "rel_write"} /\ mpc' # mpc
            => mtok'.result \in {SANLK_AIO_TIMEOUT, EIO, SANLK_LEADER_WRITE}
       /\ \A lver \in 1 .. MaxLver :
            majority_disks(NumDisks, Cardinality(OwnerOn(lver)'))
              => majority_disks(NumDisks, Cardinality(OwnerOn(lver)))]_vars

\* an acquire begun with one disk left fails in the lease read with
\* SANLK_LEADER_DIFF, and nothing was written
C16_Witness ==
  /\ Cardinality(Reachable) = 1
  /\ mpc = "done" /\ mtok.result = SANLK_LEADER_DIFF
  /\ mtok.dblock = ZeroDblock
  /\ \A d \in Disks : disks[d].leader = init_leader(FALSE, 1)


\* ---- C17
\* the tokens the daemon holds a paxos lease for, or keeps in a slot, for
\* client ci, and the slot itself, are gone
ClientGone(ci) ==
  /\ ~client[ci].used
  /\ client[ci].tokens = {}
  /\ sent.held = {}
  /\ worker.pc = "idle"

\* C17: when the pid of a client dies while an acquire command for that
\* client is in flight, then whatever the outcome of the acquire, eventually
\* every token of the client, old and new, is released and its slot is freed,
\* unless the daemon has shut down before.
C17_DeadPidReleased ==
  \A ci \in Clients :
    (ci \in sent.died_in_acquire) ~> (ClientGone(ci) \/ supervisor.exited)

\* ---- C18
\* the command thread transfers its token into the slot of client ci
Installs(ci) ==
  /\ worker.pc = "commit_space"
  /\ worker.ci_target = ci
  /\ client'[ci].tokens # client[ci].tokens

\* C18: a token is transferred into a client's slot only if, at the commit,
\* its lockspace exists, has no killing_pids set, and still has the host_id
\* and host_generation the token took at entry.
C18_CommitSnapshot ==
  [][\A ci \in Clients :
       Installs(ci) =>
         /\ space.listed
         /\ space.killing_pids = 0
         /\ \A t \in FirstTokens(worker.new_tokens_count) :
              /\ space.host_id = t.host_id
              /\ space.host_generation = t.host_generation]_vars

\* ---- C19
\* the lockspace is unlinked from the spaces list in this step
Unlinked == space.listed /\ ~space'.listed

\* C19: the lockspace is unlinked only when killing_pids is set and no
\* client slot holds a token of it, and once it is removed no token of it is
\* ever installed into a client slot.
C19_RemovalSafe ==
  [][/\ Unlinked =>
          /\ space.killing_pids # 0
          /\ \A ci \in Clients : client[ci].tokens = {}
     /\ \A ci \in Clients :
          Installs(ci) =>
            \A t \in FirstTokens(worker.new_tokens_count) :
              [host_id |-> t.host_id,
               host_generation |-> t.host_generation] \notin sent.removed
    ]_vars

\* ---- C20
\* s is an initial part of t
IsPrefix(s, t) == Len(s) <= Len(t) /\ \A i \in 1..Len(s) : s[i] = t[i]

\* the signals sent to client ci, in order
Signals(ci) == [i \in 1..Len(sent.signals[ci]) |-> sent.signals[ci][i].sig]

\* C20 as written: a client that keeps using a failing lockspace is sent
\* SIGTERM in two rounds, then SIGKILL in one round, and no signal after that.
C20_KillEscalation ==
  \A ci \in Clients : IsPrefix(Signals(ci), <<SIGTERM, SIGTERM, SIGKILL>>)

\* client ci is sent a signal in this step
Signalled(ci) == sent'.signals[ci] # sent.signals[ci]

\* C20: a client using a lockspace with killing_pids set is signalled once
\* per pass of main_loop: with SIGTERM in the first pass only, with SIGKILL in
\* the passes after it, never when it was signalled three times and never
\* after the tenth pass; it is logged as stuck in the eleventh pass only.
C20_KillRounds ==
  [][\A ci \in Clients :
       /\ Signalled(ci) =>
            /\ sent'.signals[ci] =
                 Append(sent.signals[ci],
                        [pid |-> client[ci].pid,
                         sig |-> IF space.killing_pids <= 1 THEN SIGTERM
                                 ELSE SIGKILL])
            /\ client[ci].tokens # {}
            /\ space.killing_pids <= 10
            /\ client[ci].killing <= 2
            /\ space.killing_pids <= 1 => client[ci].killing <= 1
            /\ Len(sent'.signals[ci]) <= 3
            /\ space'.killing_pids > space.killing_pids
       /\ (ci \in sent'.stuck /\ ci \notin sent.stuck) => space.killing_pids = 11
    ]_vars

\* a live client that kept its token was sent SIGTERM, SIGKILL, SIGKILL and
\* logged as stuck, and kill_pids does nothing any more
C20_Witness ==
  \E ci \in Clients :
    /\ sent.alive[ci] /\ client[ci].pid > 0
    /\ \E t \in client[ci].tokens : ~t.freed
    /\ Signals(ci) = <<SIGTERM, SIGKILL, SIGKILL>>
    /\ ci \in sent.stuck
    /\ space.listed /\ space.killing_pids = 12

\* ---- C21
\* one of the reasons for which main_loop sets killing_pids
KillReason ==
  supervisor.external_shutdown \/ space.external_remove \/ ~space.renewed

\* the command thread refuses an acquire at its first look at the lockspace
RefusedAtEntry ==
  worker.pc = "space_info" /\ worker'.pc = "fail_release"

\* C21: killing_pids of a lockspace is set by main_loop only for external
\* shutdown, external_remove or a failed renewal; once it is set it is never
\* cleared, whatever the renewal does later: it only grows until the
\* lockspace is unlinked; and while it is set an acquire for the lockspace is
\* refused at entry and no token is transferred into a client slot.
C21_FailureIrreversible ==
  [][/\ (space.killing_pids = 0 /\ space'.killing_pids # 0) => KillReason
     /\ (space.listed /\ space.killing_pids # 0) =>
          \/ space'.listed /\ space'.killing_pids >= space.killing_pids
                           /\ space'.host_generation = space.host_generation
          \/ Unlinked
     /\ (space.listed /\ space.killing_pids # 0 /\ worker.pc = "space_info"
           /\ worker' # worker) => RefusedAtEntry
     /\ \A ci \in Clients : Installs(ci) => space.killing_pids = 0
    ]_vars

\* the renewal succeeds again after killing_pids was set for its failure, and
\* an acquire that had taken its leases is refused at the commit
C21_Witness ==
  /\ space.listed /\ space.killing_pids > 1
  /\ space.renewed /\ ~space.external_remove /\ ~supervisor.external_shutdown
  /\ worker.pc = "fail_release" /\ worker.rv = -EINVAL
  /\ worker.acquire_count > 0

\* ---- C22
\* the process of every client has exited
ClientsExited == \A ci \in Clients : ~sent.alive[ci]

\* C22: once external_shutdown is set and every client process has exited,
\* main_loop eventually finds the spaces list empty and returns.
C22_ShutdownTerminates ==
  (supervisor.external_shutdown /\ ClientsExited) ~> supervisor.exited

\* ---- C27
\* the command thread is on its way out after a failure
Failing == worker.pc \in {"fail_dead", "fail_release", "fail_reply", "fail_end"}

\* the resources for which some client slot keeps a token
SlotResources == UNION {{t.res : t \in client[ci].tokens} : ci \in Clients}

\* no lease is held and no resource is kept for a token that is in no slot
NothingLeft ==
  /\ \A t \in sent.held : t.res \in SlotResources
  /\ \A t \in sent.added : t.res \in SlotResources

\* the new tokens are all transferred, with their leases held
InstalledAll(ci) ==
  /\ client'[ci].tokens = client[ci].tokens \cup FirstTokens(worker.new_tokens_count)
  /\ FirstTokens(worker.new_tokens_count) \subseteq sent.held

\* C27 as written: an acquire of more than SANLK_MAX_RESOURCES tokens fails
\* with E2BIG and one for which the slots do not suffice with ENOSPC; any
\* failure releases what was taken and leaves the token set of the client
\* unchanged; success installs all tokens; a slot never has more than
\* SANLK_MAX_RESOURCES tokens.
C27_AllOrNothing ==
  [][/\ (worker'.pc = "fail_end" /\ worker.new_tokens_count > SANLK_MAX_RESOURCES)
          => worker'.reply = -E2BIG
     /\ (worker'.pc = "fail_end" /\ worker.rv = -ENOSPC) => worker'.reply = -ENOSPC
     /\ (Failing /\ worker' # worker) =>
          client'[worker.ci_target].tokens = client[worker.ci_target].tokens
     /\ (worker'.pc = "fail_reply" /\ worker' # worker) => NothingLeft'
     /\ \A ci \in Clients :
          /\ Installs(ci) => InstalledAll(ci)
          /\ Cardinality(client'[ci].tokens) <= SANLK_MAX_RESOURCES
    ]_vars

\* C27: an acquire of more than SANLK_MAX_RESOURCES tokens, or one for which
\* the slots do not suffice, fails at entry with rv -E2BIG or -ENOSPC, and
\* the reply to a failed acquire carries -1 whatever the failure; a failure
\* releases what the command took and leaves the token set of the client
\* unchanged; success installs all tokens; a slot never has more than
\* SANLK_MAX_RESOURCES tokens.
C27_AllOrNothingReply ==
  [][/\ worker'.pc = "fail_end" => worker'.reply = -1
     /\ (worker.pc = "entry" /\ worker' # worker
           /\ worker.new_tokens_count > SANLK_MAX_RESOURCES)
          => worker'.pc = "fail_reply" /\ worker'.rv = -E2BIG
     /\ (worker.pc = "entry" /\ worker' # worker
           /\ worker.new_tokens_count <= SANLK_MAX_RESOURCES
           /\ empty_slots(client[worker.ci_target]) < worker.new_tokens_count)
          => worker'.pc = "fail_reply" /\ worker'.rv = -ENOSPC
     /\ (Failing /\ worker' # worker) =>
          client'[worker.ci_target].tokens = client[worker.ci_target].tokens
     /\ (worker'.pc = "fail_reply" /\ worker' # worker) => NothingLeft'
     /\ \A ci \in Clients :
          /\ Installs(ci) => InstalledAll(ci)
          /\ Cardinality(client'[ci].tokens) <= SANLK_MAX_RESOURCES
    ]_vars

\* an acquire of two tokens took the lease of the first only; it was released
\* again, the slot of the live client is as before and the reply is -1
C27_Witness ==
  /\ worker.pc = "fail_end" /\ ~worker.pid_dead
  /\ worker.new_tokens_count = 2 /\ worker.acquire_count = 1
  /\ worker.reply = -1
  /\ sent.held = {} /\ sent.added = {}
  /\ client[worker.ci_target].used /\ client[worker.ci_target].tokens = {}

\* ---- C23
\* host h is inside run_ballot or about to enter it
InBallot(h) == pc[h] \in {"p1_write", "p1_read", "p2_write", "p2_read"}

\* host h leaves run_ballot with an abort that is retried
Retried(h) == pc[h] \in {"p1_read", "p2_read"} /\ pc'[h] = "retry_ballot"

\* C23: the mbal of every ballot of host_id h is congruent to h modulo
\* max_hosts and larger than the max_mbal of the lease read; it is the mbal
\* written in phase 1, larger than the mbal the host wrote before, and each
\* retry adds max_hosts to it.
C23_MbalScheme ==
  [][\A h \in Hosts :
       /\ InBallot(h) =>
            /\ acq[h].our_mbal % max_hosts = h % max_hosts
            /\ acq[h].our_mbal > acq[h].max_mbal
       /\ (pc[h] = "p1_write" /\ pc'[h] = "p1_read") =>
            /\ dblocks'[h].mbal = acq[h].our_mbal
            /\ dblocks'[h].mbal > dblocks[h].mbal
       /\ Retried(h) => acq'[h].our_mbal = acq[h].our_mbal + max_hosts
    ]_vars

\* a host starts its second ballot of one call, after one retry, with an
\* mbal above that of the other host
C23_Witness ==
  \E h \in Hosts :
    /\ pc[h] = "p1_write" /\ acq[h].ballots = 1
    /\ acq[h].our_mbal = dblocks[h].mbal + max_hosts
    /\ \A q \in Hosts \ {h} : dblocks[q].mbal # 0 /\ acq[h].our_mbal > dblocks[q].mbal

\* ---- C25
\* host h reads, in phase 1 or 2, a dblock that ends its ballot: one of a
\* later lver, or one of its lver with a larger mbal
Overtaken(h) ==
  /\ pc[h] \in {"p1_read", "p2_read"}
  /\ \E q \in Hosts :
       \/ dblocks[q].lver > acq[h].dblock.lver
       \/ dblocks[q].lver = acq[h].dblock.lver /\ dblocks[q].mbal > acq[h].dblock.mbal

\* C25: paxos_lease_acquire never returns SANLK_DBLOCK_MBAL or
\* SANLK_DBLOCK_LVER: a ballot that is overtaken is retried from retry_ballot
\* with our_mbal raised by max_hosts, and the call has no result yet.
C25_AbortsRetried ==
  [][\A h \in Hosts :
       /\ acq'[h].result \notin {SANLK_DBLOCK_MBAL, SANLK_DBLOCK_LVER}
       /\ (Overtaken(h) /\ pc'[h] # pc[h]) =>
            /\ pc'[h] = "retry_ballot"
            /\ acq'[h].our_mbal = acq[h].our_mbal + max_hosts
            /\ acq'[h].result = NONE
    ]_vars

\* a host whose ballot was overtaken in phase 2 is back at retry_ballot
C25_Witness ==
  \E h \in Hosts :
    /\ pc[h] = "retry_ballot" /\ acq[h].ballots > 0
    /\ acq[h].dblock.bal # 0
    /\ acq[h].our_mbal = acq[h].dblock.mbal + max_hosts
    /\ acq[h].result = NONE

\* ---- C26
\* host h, having written its phase 2 dblock, reads a dblock that ends its
\* ballot, and run_ballot returns SANLK_DBLOCK_MBAL or SANLK_DBLOCK_LVER
Phase2Abort(h) == pc[h] = "p2_read" /\ Overtaken(h) /\ pc'[h] # pc[h]

Accepted(h) ==
  {q \in Hosts : /\ dblocks[q].lver = acq[h].dblock.lver
                 /\ dblocks[q].inp # 0 /\ dblocks[q].bal # 0}

\* the value of dblock d
Inp(d) == <<d.inp, d.inp2, d.inp3>>

\* C30: a ballot passes phase 1, and succeeds in phase 2, only if the read
\* finds no dblock of a later lver and none of its lver with a larger mbal.
\* Passing phase 1 it has mbal = bal = our_mbal and lver = next_lver, with
\* the inp of the dblock of largest bal among those accepted for next_lver,
\* or the host's own (host_id, host_generation, now) when there is none; it
\* succeeds with that dblock, which is the one on disk.
C30_BallotRule ==
  [][\A h \in Hosts :
       /\ (pc[h] = "p1_read" /\ pc'[h] = "p2_write") =>
            /\ ~Overtaken(h)
            /\ acq'[h].dblock.mbal = acq[h].our_mbal
            /\ acq'[h].dblock.bal = acq[h].our_mbal
            /\ acq'[h].dblock.lver = acq[h].next_lver
            /\ IF Accepted(h) = {}
                 THEN Inp(acq'[h].dblock) = <<h, tok[h].host_generation, now>>
                 ELSE \E q \in Accepted(h) :
                        /\ \A p \in Accepted(h) : dblocks[q].bal >= dblocks[p].bal
                        /\ Inp(acq'[h].dblock) = Inp(dblocks[q])
       /\ (pc[h] = "p2_read" /\ pc'[h] = "write_leader") =>
            /\ ~Overtaken(h)
            /\ acq'[h].dblock = acq[h].dblock
            /\ dblocks[h] = acq[h].dblock
            /\ acq[h].dblock.mbal = acq[h].our_mbal
            /\ acq[h].dblock.bal = acq[h].our_mbal
            /\ acq[h].dblock.lver = acq[h].next_lver
    ]_vars

\* a ballot has succeeded with the inp of the other host, taken from that
\* host's phase 2 dblock of smaller bal
C30_Witness ==
  \E h \in Hosts, q \in Hosts :
    /\ q # h
    /\ pc[h] = "write_leader"
    /\ acq[h].dblock.inp = q
    /\ acq[h].dblock.bal = acq[h].our_mbal
    /\ dblocks[q].inp = q /\ dblocks[q].bal # 0
    /\ dblocks[q].bal < acq[h].dblock.bal
    /\ dblocks[q].lver = acq[h].dblock.lver

\* ---- C28
\* the leader on disk names host h as owner, with a generation older than
\* that of h's token
OldLocal(h) ==
  /\ verify_leader(leader) = SANLK_OK
  /\ leader.timestamp # LEASE_FREE
  /\ leader.owner_id = h
  /\ leader.owner_generation < tok[h].host_generation

\* C28: each time a host acquires its host_id again its generation is the
\* one before plus one; and an acquire that reads a leader owned by its own
\* host_id with an older generation goes straight to the ballot, for the
\* next lver, without waiting for the owner to be dead.
C28_OldLocalReacquired ==
  [][\A h \in Hosts :
       /\ (~alive[h] /\ alive'[h]) =>
            /\ delta'[h].owner_generation = delta[h].owner_generation + 1
            /\ tok'[h].host_generation = delta'[h].owner_generation
       /\ alive[h] => tok[h].host_generation = delta[h].owner_generation
       /\ (pc[h] = "lease_read" /\ pc'[h] \notin {pc[h], "dead"} /\ OldLocal(h)) =>
            /\ pc'[h] = "p1_write"
            /\ acq'[h].next_lver = leader.lver + 1
    ]_vars

\* a host that stopped while it owned r has joined again and, in the same
\* second, is in the ballot for r, whose leader still names its old
\* generation
C28_Witness ==
  \E h \in Hosts :
    /\ OldLocal(h)
    /\ pc[h] = "p1_write"
    /\ acq[h].cur_leader = leader
    /\ delta[h].timestamp = now
    /\ tok[h].host_generation = 2

\* ---- C29
\* C29: when paxos_lease_acquire returns SANLK_OK, the leader it returns has
\* a timestamp other than LEASE_FREE, the caller's host_id as owner_id, and
\* the host_generation of the token as owner_generation.
C29_ReturnedLeader ==
  \A h \in Hosts :
    (pc[h] = "done" /\ acq[h].result = SANLK_OK) =>
      /\ acq[h].leader_ret.timestamp # LEASE_FREE
      /\ acq[h].leader_ret.owner_id = h
      /\ acq[h].leader_ret.owner_generation = tok[h].host_generation

\* ---- C24
\* some host has called paxos_lease_acquire for r
Contending == \E h \in Hosts : pc[h] # "idle"

\* C24 as written: when hosts contend for free r under fair scheduling,
\* eventually the ballot of one of them succeeds and is committed.
C24_Convergence == Contending ~> ~Contended

\* no host other than h writes its dblock in this step
OthersQuiet(h) == \A q \in Hosts \ {h} : dblocks'[q] = dblocks[q] \/ Rebase

\* C24: a host that has called paxos_lease_acquire for free r gets a ballot
\* committed if from some time on no other host writes a dblock; hosts that
\* keep overtaking each other are not covered.
C24_ConvergesWhenQuiet ==
  \A h \in Hosts :
    (<>[][OthersQuiet(h)]_vars /\ <>(pc[h] # "idle")) => <>(~Contended)

\* the ballot of a host was committed after it was aborted by the other
\* host and retried
C24_Witness ==
  \E h \in Hosts :
    /\ ~Contended
    /\ leader.write_id = h
    /\ acq[h].ballots > 1
    /\ \E q \in Hosts \ {h} : dblocks[q].mbal # 0

\* ---- C31
\* host h's acquire judges the owner alive in this step: it leaves the wait
\* loop with SANLK_ACQUIRE_IDLIVE, or for the ballot after reading the
\* owner's dblock
JudgedLive(h) ==
  \/ /\ pc[h] = "delta_read" /\ pc'[h] = "done"
     /\ acq'[h].result = SANLK_ACQUIRE_IDLIVE
  \/ pc[h] = "owner_dblock" /\ pc'[h] # pc[h] /\ pc'[h] # "dead"

\* the owner named by the leader that host h read holds r at that lver
OwnerHolds(h) ==
  LET cur == acq[h].cur_leader
      o == cur.owner_id
  IN /\ alive[o] /\ tok[o].held
     /\ tok[o].leader.lver = cur.lver
     /\ tok[o].host_generation = cur.owner_generation

\* the released path never takes r from an owner that holds it at the lver
\* of the leader
ReleasedPathSafe(h) ==
  (pc[h] = "owner_dblock" /\ pc'[h] = "retry_ballot") => ~OwnerHolds(h)

\* C31 as claimed: when the owner is seen live, acquire goes on to a ballot
\* instead of failing SANLK_ACQUIRE_IDLIVE whenever the owner's dblock carries
\* DBLOCK_FL_RELEASED, and this never takes r from a live owner that has not
\* released its hold at the lver of the leader.
C31_ReleasedProceeds ==
  [][\A h \in Hosts :
       /\ (/\ JudgedLive(h)
           /\ DBLOCK_FL_RELEASED \in dblocks[acq[h].cur_leader.owner_id].flags)
          => pc'[h] = "retry_ballot"
       /\ ReleasedPathSafe(h)]_vars

\* C31 amended: when the owner is seen live, acquire goes on to a ballot
\* exactly when the leader was written by a host other than the owner and
\* the owner's dblock carries DBLOCK_FL_RELEASED; with write_id = owner_id the
\* dblock is not read and SANLK_ACQUIRE_IDLIVE is returned.  The released
\* path never takes r from a live owner that has not released its hold at
\* the lver of the leader.
C31_ReleasedWriterProceeds ==
  [][\A h \in Hosts :
       /\ JudgedLive(h) =>
            LET cur == acq[h].cur_leader
                released == DBLOCK_FL_RELEASED \in dblocks[cur.owner_id].flags
            IN IF pc[h] = "owner_dblock" /\ released
                 THEN /\ pc'[h] = "retry_ballot"
                      /\ cur.write_id # cur.owner_id
                      /\ acq'[h].next_lver = cur.lver + 1
                 ELSE /\ pc'[h] = "done"
                      /\ acq'[h].result = SANLK_ACQUIRE_IDLIVE
                      /\ pc[h] = "delta_read" => cur.write_id = cur.owner_id
       /\ ReleasedPathSafe(h)]_vars

\* an acquire is on its way to the ballot because the live owner's dblock,
\* under a leader written by another host, carries DBLOCK_FL_RELEASED
C31_Witness ==
  \E h \in Hosts :
    LET cur == acq[h].cur_leader IN
    /\ pc[h] = "retry_ballot" /\ acq[h].leader_ret = cur
    /\ cur.timestamp # LEASE_FREE /\ cur.owner_id # h
    /\ cur.write_id # cur.owner_id
    /\ alive[cur.owner_id]
    /\ DBLOCK_FL_RELEASED \in dblocks[cur.owner_id].flags

\* ---- C32
\* the delta lease of the owner named by the leader that host h read is free,
\* carries another owner_id, or carries a later generation
OwnerGone(h) ==
  LET cur == acq[h].cur_leader
      dl == delta[cur.owner_id]
  IN \/ dl.timestamp = LEASE_FREE
     \/ dl.owner_id # cur.owner_id
     \/ dl.owner_generation > cur.owner_generation

\* C32, owner declared dead by its delta lease: when the delta lease read in
\* the owner wait loop is free, has another owner_id or a later generation,
\* acquire goes to the ballot for cur_leader.lver + 1 in that very pass of the
\* loop, without sleeping and whatever time has passed since wait_start.
C32_DeadByDelta ==
  [][\A h \in Hosts :
       (pc[h] = "delta_read" /\ pc'[h] # pc[h] /\ pc'[h] # "dead" /\ OwnerGone(h))
       => /\ pc'[h] = "retry_ballot"
          /\ acq'[h].next_lver = acq[h].cur_leader.lver + 1
          /\ acq'[h].our_mbal = first_mbal(acq[h].max_mbal, h)
          /\ now' = now /\ leader' = leader /\ dblocks' = dblocks]_vars

\* an acquire is on its way to the ballot, the owner's host_id being held by
\* a later generation, less than host_dead_seconds after the call began
C32_Witness ==
  \E h \in Hosts :
    LET cur == acq[h].cur_leader
        dl == delta[cur.owner_id]
    IN /\ pc[h] = "retry_ballot" /\ acq[h].ballots = 0
       /\ cur.timestamp # LEASE_FREE /\ cur.owner_id # h
       /\ dl.timestamp # LEASE_FREE /\ dl.owner_id = cur.owner_id
       /\ dl.owner_generation > cur.owner_generation
       /\ PAXOS_ACQUIRE_FORCE \notin acq[h].flags
       /\ now - dl.timestamp < calc_host_dead_seconds(dl.io_timeout)

\* ---- C33
\* host h's acquire takes the step at label retry_ballot
AtRetryBallot(h) == pc[h] = "retry_ballot" /\ pc'[h] # pc[h] /\ pc'[h] # "dead"

\* C33, leader check before each ballot: a ballot is entered only from the
\* lease read (with the leader just read) or from retry_ballot, which reads
\* the leader again: an lver above next_lver restarts the lease read, an lver
\* equal to next_lver returns SANLK_OK when the leader names the caller
\* (host_id, host_generation) and SANLK_ACQUIRE_OWNED otherwise, and the
\* ballot is run only when the leader equals the cur_leader from which
\* next_lver = cur_leader.lver + 1 was derived.
C33_LeaderCheck ==
  [][\A h \in Hosts :
       /\ AtRetryBallot(h) =>
            LET a == acq[h] IN
            IF leader.lver > a.next_lver THEN pc'[h] = "lease_read"
            ELSE IF leader.lver = a.next_lver
              THEN /\ pc'[h] = "done"
                   /\ acq'[h].leader_ret = leader
                   /\ acq'[h].result =
                        IF /\ leader.owner_id = h
                           /\ leader.owner_generation = tok[h].host_generation
                          THEN SANLK_OK ELSE SANLK_ACQUIRE_OWNED
            ELSE IF leader # a.cur_leader THEN pc'[h] = "lease_read"
            ELSE pc'[h] = "p1_write" /\ acq'[h] = a
       /\ (pc[h] # "p1_write" /\ pc'[h] = "p1_write") =>
            /\ pc[h] \in {"lease_read", "retry_ballot"}
            /\ leader = acq'[h].cur_leader
            /\ acq'[h].next_lver = acq'[h].cur_leader.lver + 1
       /\ (pc[h] \in {"p1_read", "p2_read"} /\ pc'[h] # pc[h]) =>
            pc'[h] \in {"retry_ballot", "p2_write", "write_leader", "dead"}]_vars

\* after an aborted ballot the leader read at retry_ballot carried next_lver
\* and another owner: the call returned SANLK_ACQUIRE_OWNED
C33_Witness ==
  \E h \in Hosts :
    /\ pc[h] = "done" /\ acq[h].result = SANLK_ACQUIRE_OWNED
    /\ acq[h].ballots > 0
    /\ acq[h].leader_ret.lver = acq[h].next_lver
    /\ acq[h].leader_ret.owner_id # h

\* ---- C34
\* C34, the lver on disk never goes back: no write of the leader, by acquire
\* or by release, replaces the leader on disk with one of smaller lver, while
\* every host keeps its delta lease.
C34_LverNeverBack == [][leader'.lver >= leader.lver]_vars

\* ---- C40
\* host h's release verifies, in this step, a leader that h wrote
Verifies(h) ==
  /\ pc[h] = "rel_read" /\ pc'[h] # pc[h] /\ pc'[h] # "dead"
  /\ leader.write_id = h

\* the failures of the verification, in the order of the checks
LverFails(h) == leader.lver # tok[h].leader.lver
FreeFails(h) == ~LverFails(h) /\ leader.timestamp = LEASE_FREE
OwnerFails(h) ==
  /\ ~LverFails(h) /\ leader.timestamp # LEASE_FREE
  /\ (leader.owner_id # h \/ leader.owner_generation # tok[h].host_generation)
ValsFail(h) ==
  /\ ~LverFails(h) /\ ~FreeFails(h) /\ ~OwnerFails(h)
  /\ leader # tok[h].leader

\* a release that failed writes nothing
FailedReleaseWritesNothing(h) ==
  /\ (pc[h] = "rel_read" /\ pc'[h] # pc[h]) => leader' = leader
  /\ (pc[h] = "rel_done" /\ acq[h].result # SANLK_OK) => leader' = leader
  /\ (pc[h] = "rel_write" /\ pc'[h] # pc[h]) =>
       /\ acq[h].cur_leader.write_id = h
       /\ acq[h].cur_leader = tok[h].leader

\* C40 as claimed: each of the three failures (lver, ownership, timestamp
\* already LEASE_FREE) ends release with an error kind of its own, and no
\* leader is written.
C40_DistinctErrors ==
  [][\A h \in Hosts :
       /\ Verifies(h) =>
            /\ LverFails(h) =>
                 pc'[h] = "rel_done" /\ acq'[h].result = SANLK_RELEASE_LVER
            /\ OwnerFails(h) =>
                 pc'[h] = "rel_done" /\ acq'[h].result = SANLK_RELEASE_OWNER
            /\ FreeFails(h) =>
                 /\ pc'[h] = "rel_done"
                 /\ acq'[h].result \notin
                      {SANLK_OK, SANLK_RELEASE_LVER, SANLK_RELEASE_OWNER}
       /\ FailedReleaseWritesNothing(h)]_vars

\* C40 amended: a wrong lver ends release with SANLK_RELEASE_LVER; a timestamp
\* already LEASE_FREE, another owner, and any other difference from the
\* leader of the token all end it with SANLK_RELEASE_OWNER; on each of them
\* no leader is written and the leader on disk stays as it is; only a leader
\* equal to the token's reaches the leader write.
C40_ReleaseVerified ==
  [][\A h \in Hosts :
       /\ Verifies(h) =>
            IF LverFails(h)
              THEN pc'[h] = "rel_done" /\ acq'[h].result = SANLK_RELEASE_LVER
            ELSE IF FreeFails(h) \/ OwnerFails(h) \/ ValsFail(h)
              THEN pc'[h] = "rel_done" /\ acq'[h].result = SANLK_RELEASE_OWNER
            ELSE pc'[h] = "rel_write" /\ acq'[h].cur_leader = leader
       /\ FailedReleaseWritesNothing(h)]_vars

\* a release found the leader it wrote already free and returned
\* SANLK_RELEASE_OWNER; the leader on disk is as it was
C40_Witness ==
  \E h \in Hosts :
    /\ pc[h] = "rel_done" /\ acq[h].result = SANLK_RELEASE_OWNER
    /\ leader.write_id = h /\ leader.lver = tok[h].leader.lver
    /\ leader.timestamp = LEASE_FREE

\* ---- C39
\* what the request of a token asks for
OwnLver(token) ==
  IF SANLK_RES_LVER \in token.acquire_flags THEN token.acquire_lver ELSE 0
OwnNumHosts(token) ==
  IF SANLK_RES_NUM_HOSTS \in token.acquire_flags THEN token.acquire_data32 ELSE 0

\* C39, the expected lver is per resource: each resource of a command is
\* acquired with the acquire_lver and num_hosts of its own request (0 without
\* SANLK_RES_LVER / SANLK_RES_NUM_HOSTS); its acquire fails with
\* SANLK_ACQUIRE_LVER, writing nothing, exactly when its own request carries a
\* non-zero lver other than the lver of the leader on disk.
C39_PerResource ==
  [][(worker.pc = "acquire" /\ worker' # worker) =>
       LET token == worker.new_tokens[worker.i]
           l == disks[token.resource_name]
           call == sent'[Len(sent')]
           mismatch == OwnLver(token) # 0 /\ l.lver # OwnLver(token)
       IN /\ call.acquire_lver = OwnLver(token)
          /\ call.new_num_hosts = OwnNumHosts(token)
          /\ (worker'.rv = SANLK_ACQUIRE_LVER) <=> mismatch
          /\ mismatch => disks' = disks
          /\ ~mismatch =>
               /\ disks'[token.resource_name].lver = l.lver + 1
               /\ OwnNumHosts(token) = 0 =>
                    disks'[token.resource_name].num_hosts = l.num_hosts
    ]_vars


\* ---------------------------------------------------------------------
\* C38: with PAXOS_ACQUIRE_OWNER_NOWAIT set, a call that has read the
\* owner's delta lease never enters the 1-second wait: no step of such a
\* call leads from the delta lease read to the sleep.
C38_NoWaitNeverSleeps ==
  [][\A h \in Hosts :
       (PAXOS_ACQUIRE_OWNER_NOWAIT \in acq[h].flags /\ pc[h] = "delta_read")
         => pc'[h] # "sleep"]_vars


\* ---------------------------------------------------------------------
\* ---- C36
\* a cmd_acquire_thread for client ci is running and has not given up
\* cmd_active yet
AcquireRuns(ci) ==
  /\ worker.pc # "idle"
  /\ worker.ci_target = ci
  /\ client[ci].cmd_active = SM_CMD_ACQUIRE

\* a step of main_loop leaves the slot and the tokens of client ci to the
\* command thread
CleanupDeferred(ci) ==
  /\ client'[ci].used
  /\ client'[ci].tokens = client[ci].tokens
  /\ client'[ci].cmd_active = client[ci].cmd_active
  /\ client'[ci].acquire_done = client[ci].acquire_done

\* C36: while a cmd_acquire_thread for a client is running, a first one or
\* a later one, no step of main_loop releases the client's tokens or frees
\* its slot, and the thread stores tokens only into a slot still in use.
C36_DeferredCleanup ==
  [][\A ci \in Clients :
       /\ (AcquireRuns(ci) /\ worker' = worker) => CleanupDeferred(ci)
       /\ Installs(ci) => client[ci].used]_vars


\* ---------------------------------------------------------------------
\* C35: whatever the interleaving of client_pid_dead with the release and
\* inquire threads of the client, release_token is called at most once and
\* free_token at most once on each token, and no release or inquire thread
\* reads or writes the client slot after client_dead has cleared it.
C35_NoDoubleRelease ==
  /\ \A k \in 1 .. MaxCmdTokens : sent.released[k] <= 1 /\ sent.freed[k] <= 1
  /\ sent.stale \cap {SM_CMD_RELEASE, SM_CMD_INQUIRE} = {}


\* ---------------------------------------------------------------------
\* ---- C37
\* the command threads working for client ci that have not given up
\* cmd_active yet
ActiveThreads(ci) ==
  {t \in Threads : /\ worker[t].pc \notin {"idle", "acq_reply"}
                   /\ worker[t].ci_target = ci}

\* the slot that a command received on connection ci names
CmdTarget(ci, self, data2) == IF self THEN ci ELSE find_client_pid(data2)

\* a command for a client with a command in progress is refused with -EBUSY
\* and changes neither the client table nor the threads
BusyRefused ==
  \A ci \in Clients, cmd \in CmdKinds, self \in BOOLEAN,
     data2 \in {-1} \cup (1 .. MaxPids) :
    LET target == CmdTarget(ci, self, data2)
    IN (/\ ProcessCmd(ci, cmd, self, data2)
        /\ target \in Clients
        /\ client[target].cmd_active # 0)
         => /\ sent'.rv = -EBUSY
            /\ client' = client
            /\ worker' = worker

\* thread t gives up its command in this step: the commit of an acquire that
\* succeeds, or the reply of a release, an inquire or a failed acquire
GivesUp(t) ==
  \/ worker[t].pc = "acq_commit" /\ worker'[t].pc = "acq_reply"
  \/ worker[t].pc \in {"acq_fail", "rel_reply", "inq_reply"} /\ worker'[t].pc = "idle"

\* cmd_active of the client is 0 after the step in which its thread gives up
BackToZero ==
  \A t \in Threads :
    GivesUp(t) => client'[worker[t].ci_target].cmd_active = 0

\* C37: for every client slot at most one resource command thread is active
\* at a time; a command for a client whose cmd_active is not 0 is refused
\* with -EBUSY and leaves cmd_active as it is; and cmd_active is 0 again when
\* the thread of the command gives up, after success and after failure.
C37_OneCommand ==
  [][/\ \A ci \in Clients : Cardinality(ActiveThreads(ci)) <= 1
     /\ BusyRefused
     /\ BackToZero]_vars

====
